---- MODULE Spec2Model ----
(***************************************************************************)
(* A model of the asteval tree-walking interpreter (asteval/asteval.py):   *)
(* the dispatch method Interpreter.run, the node handlers on_xxx, the      *)
(* error accumulator raise_exception, Procedure.__call__ and the top-level *)
(* Interpreter.eval.                                                       *)
(*                                                                         *)
(* The interpreter is recursive Python; the model follows it as recursive  *)
(* operators.  Every operator that models a method returns a record        *)
(*     [st |-> interpreter fields, val |-> returned value, exc |-> kind]   *)
(* where exc = "none" is a normal return and any other exc is a Python     *)
(* exception of that class leaving the method.                             *)
(***************************************************************************)
EXTENDS Integers, Sequences, FiniteSets, TLC

VARIABLES
    interp,     \* the fields of one Interpreter instance
    outcome,    \* what the last eval() call gave its caller
    last,       \* the last eval() call: its script and the namespace before it
    nevals,     \* number of eval() calls made on the instance
    family,     \* which family of scripts the host session draws from
    ctl,        \* the position of an eval() call that is stepped through
    instances,  \* the Interpreter instances of a host that builds several
    dicts,      \* the dict objects that are the namespaces of these instances
    frame       \* a Frame of the host, and the last call of one of its methods

vars == <<interp, outcome, last, nevals, family, ctl, instances, dicts, frame>>

(***************************************************************************)
(* Python values.  Every value is a record with the fields k (kind), n     *)
(* (integer payload) and seq (items of a tuple); a Procedure adds proc and *)
(* an exception instance adds exc.                                         *)
(***************************************************************************)
None == [k |-> "none", n |-> 0, seq |-> <<>>]
IntVal(i) == [k |-> "int", n |-> i, seq |-> <<>>]
BoolVal(b) == [k |-> "bool", n |-> IF b THEN 1 ELSE 0, seq |-> <<>>]
TupleVal(s) == [k |-> "tuple", n |-> 0, seq |-> s]
Builtin(i) == [k |-> "builtin", n |-> i, seq |-> <<>>]
ExcValue(kind) == [k |-> "exception", n |-> 0, seq |-> <<>>, exc |-> kind]
ProcValue(p) == [k |-> "proc", n |-> 0, seq |-> <<>>, proc |-> p]
\* a list, and an object with attributes: n is the place of the object in the
\* heap, where its items and its attributes are
ListVal(ref) == [k |-> "list", n |-> ref, seq |-> <<>>]
ObjectVal(ref) == [k |-> "object", n |-> ref, seq |-> <<>>]
\* an integer that the model does not compute: a ** b or a << b
BigInt(op, a, b) == [k |-> "int", n |-> 0, seq |-> <<>>, op |-> op, a |-> a, b |-> b]

\* astutils.ReturnedNone: the sentinel for "returned None"
ReturnedNone == [k |-> "ReturnedNone", n |-> 0, seq |-> <<>>]

\* Python truth value of a value (bool(val))
Truthy(val) ==
    CASE val.k = "none" -> FALSE
      [] val.k = "int" -> val.n # 0
      [] val.k = "bool" -> val.n # 0
      [] val.k = "tuple" -> val.seq # <<>>
      [] val.k = "ReturnedNone" -> FALSE
      [] OTHER -> TRUE

\* repr(val).startswith('<'): callables print as <...>, and so does an
\* instance of a class of the host that defines no __repr__
ReprStartsWithAngle(val) == val.k \in {"proc", "builtin", "object"}

\* hasattr(func, '__call__') or isinstance(func, type)
Callable(val) == val.k \in {"proc", "builtin"}

(***************************************************************************)
(* Syntax tree nodes, as ast.parse builds them.  t is the lower-cased      *)
(* class name, the key of Interpreter.node_handlers.                       *)
(***************************************************************************)
NoneNode == [t |-> "None"]
Num(i) == [t |-> "num", n |-> i]
NameConstant(v) == [t |-> "nameconstant", value |-> v]
Name(id) == [t |-> "name", id |-> id, ctx |-> "Load"]
TupleNode(elts) == [t |-> "tuple", elts |-> elts]
BinOp(l, op, r) == [t |-> "binop", left |-> l, op |-> op, right |-> r]
UnaryOp(op, operand) == [t |-> "unaryop", op |-> op, operand |-> operand]
BoolOp(op, values) == [t |-> "boolop", op |-> op, values |-> values]
Compare(l, op, r) == [t |-> "compare", left |-> l, ops |-> <<op>>, comparators |-> <<r>>]
Expr(v) == [t |-> "expr", value |-> v]
Assign(id, v) == [t |-> "assign", targets |-> <<[t |-> "name", id |-> id, ctx |-> "Store"]>>, value |-> v]
\* an assignment to the tuple target (id1, id2, ...)
AssignTuple(ids, v) ==
    [t |-> "assign",
     targets |-> <<[t |-> "tuple",
                    elts |-> [i \in 1..Len(ids) |-> [t |-> "name", id |-> ids[i], ctx |-> "Store"]]]>>,
     value |-> v]
AssertStmt(test) == [t |-> "assert", test |-> test]
\* [elt for id in iter]
ListComp(elt, id, iter) ==
    [t |-> "listcomp", elt |-> elt,
     generators |-> <<[t |-> "comprehension",
                       target |-> [t |-> "name", id |-> id, ctx |-> "Store"],
                       iter |-> iter, ifs |-> <<>>]>>]
\* value.attr and value[slice] in the context ctx, "Load" or "Store"; the
\* slice is an ast.Index
Attribute(value, attr, ctx) ==
    [t |-> "attribute", value |-> value, attr |-> attr, ctx |-> ctx]
Index(value) == [t |-> "index", value |-> value]
Subscript(value, slice, ctx) ==
    [t |-> "subscript", value |-> value, slice |-> slice, ctx |-> ctx]
Delete(targets) == [t |-> "delete", targets |-> targets]
\* lower:upper:step in a subscript; a part left out is None
Slice(lower, upper, step) == [t |-> "slice", lower |-> lower, upper |-> upper, step |-> step]
\* target = v and target op= value, for any target
AssignTo(target, v) == [t |-> "assign", targets |-> <<target>>, value |-> v]
AugAssign(target, op, value) ==
    [t |-> "augassign", target |-> target, op |-> op, value |-> value]
Pass == [t |-> "pass"]
Break == [t |-> "break"]
Continue == [t |-> "continue"]
Return(v) == [t |-> "return", value |-> v]
If(test, body, orelse) == [t |-> "if", test |-> test, body |-> body, orelse |-> orelse]
While(test, body, orelse) == [t |-> "while", test |-> test, body |-> body, orelse |-> orelse]
For(id, iter, body, orelse) ==
    [t |-> "for", target |-> [t |-> "name", id |-> id, ctx |-> "Store"], iter |-> iter,
     body |-> body, orelse |-> orelse]
\* type is the name of the exception class the handler declares, "" for none
ExceptHandler(type, name, body) ==
    [t |-> "excepthandler", type |-> type, name |-> name, body |-> body]
Try(body, handlers, orelse, finalbody) ==
    [t |-> "try", body |-> body, handlers |-> handlers, orelse |-> orelse,
     finalbody |-> finalbody]
Call(func, args) == [t |-> "call", func |-> func, args |-> args, keywords |-> <<>>]
FunctionDef(name, argnames, body) ==
    [t |-> "functiondef", name |-> name, argnames |-> argnames, defaults |-> <<>>,
     vararg |-> "", kwarg |-> "", body |-> body]
\* ast.keyword, and a call with keyword arguments
Keyword(arg, value) == [arg |-> arg, value |-> value]
CallKw(func, args, keywords) ==
    [t |-> "call", func |-> func, args |-> args, keywords |-> keywords]
\* a definition with defaults for its last parameters, *vararg and **kwarg
\* ("" for none)
FunctionDefArgs(name, argnames, defaults, vararg, kwarg, body) ==
    [t |-> "functiondef", name |-> name, argnames |-> argnames, defaults |-> defaults,
     vararg |-> vararg, kwarg |-> kwarg, body |-> body]
Lambda == [t |-> "lambda"]
Module(body) == [t |-> "module", body |-> body]

\* a source text, line by line: a line is the statement it parses to, or
\* Garbage, a line that is no Python
Garbage == [t |-> "garbage"]
Text(lines) == [t |-> "text", lines |-> lines]

\* Interpreter.supported_nodes, plus the two aliases of 'try'
supported_nodes ==
    {"arg", "assert", "assign", "attribute", "augassign", "binop", "boolop",
     "break", "call", "compare", "continue", "delete", "dict", "ellipsis",
     "excepthandler", "expr", "extslice", "for", "functiondef", "if", "ifexp",
     "index", "interrupt", "list", "listcomp", "module", "name", "nameconstant",
     "num", "pass", "print", "raise", "repr", "return", "slice", "str",
     "subscript", "try", "tuple", "unaryop", "while", "tryexcept", "tryfinally"}

\* astutils.MAX_CYCLES, the step ceiling (scaled down)
MAX_CYCLES == 40

(***************************************************************************)
(* Results of a method, and dict update.                                   *)
(***************************************************************************)
Ok(st, val) == [st |-> st, val |-> val, exc |-> "none"]
Exc(st, e) == [st |-> st, val |-> None, exc |-> e]

\* d[key] = val on a dict
SetItem(d, key, val) == [x \in DOMAIN d \cup {key} |-> IF x = key THEN val ELSE d[x]]

\* d.pop(key), del d[key]
Pop(d, key) == [x \in DOMAIN d \ {key} |-> d[x]]

\* d.update(other)
Update(d, other) ==
    [x \in DOMAIN d \cup DOMAIN other |-> IF x \in DOMAIN other THEN other[x] ELSE d[x]]

\* Interpreter.tracer: append a line when tracing is on.  A line is kept as
\* the event, the name and the value it was formatted from.
tracer(st, ev, id, val) ==
    IF st.trace_enabled
    THEN [st EXCEPT !.trace = Append(@, [ev |-> ev, id |-> id, val |-> val])]
    ELSE st

\* astutils.ExceptionHolder: the record of one failure.  exc is the class
\* given, else the class of the exception being handled (sys.exc_info()[0]);
\* info is sys.exc_info() at the time the record is made.
ExceptionHolder(exc, cur) ==
    [exc |-> IF exc # "none" THEN exc ELSE cur, info |-> cur]

\* Interpreter.raise_exception(node, exc=exc), called while the exception cur
\* is being handled ("none": outside any except block).  It always raises.
raise_exception(st, exc, cur) ==
    LET s1 == [st EXCEPT !.interrupt = "break",
                         !.error = Append(@, ExceptionHolder(exc, cur))]
        first == s1.error[1].exc
    IN  Exc(s1, IF exc # "none" THEN exc
                ELSE IF first # "none" THEN first
                ELSE "TypeError")

\* the msg of a failure raised by Procedure.__call__: its text, and the
\* names and the counts formatted into it
Msg(text, names, expected, got) ==
    [text |-> text, names |-> names, expected |-> expected, got |-> got]

\* the msg of the record that the raise_exception call that ended as r made
WithMsg(r, msg) ==
    [r EXCEPT !.st.error[Len(r.st.error)] =
                  [exc |-> @.exc, info |-> @.info, msg |-> msg]]

\* Procedure.raise_exc(None, exc=exc, msg=msg): raise_exception, with the
\* msg in the record it makes
raise_exc(st, exc, cur, msg) == WithMsg(raise_exception(st, exc, cur), msg)

\* time() - self.start > self.max_time at the entry of the next run() call.
\* The clock is monotonic, so within one evaluation the test is false up to
\* some run() call and true from it on: deadline is the number of that call
\* (0: the budget is not exhausted during this evaluation), and ticks counts
\* the run() calls of the evaluation up to that one.
TimeExceeded(st) == st.deadline # 0 /\ st.ticks + 1 >= st.deadline

\* the clock after one more run() call
Tick(st) ==
    IF st.deadline # 0 /\ st.ticks < st.deadline
    THEN [st EXCEPT !.ticks = @ + 1]
    ELSE st

\* RunChecks with the clock checked in debug mode too
RunChecks_ClockAlways(st) ==
    IF TimeExceeded(st)
    THEN Exc(Tick(st), "RuntimeError")
    ELSE LET s1 == [Tick(st) EXCEPT !.cycles = @ + 1]
         IN  IF s1.cycles > MAX_CYCLES THEN Exc(s1, "RuntimeError")
             ELSE Ok(s1, None)

\* RunChecks without self.cycles += 1
RunChecks_NoCount(st) ==
    IF ~st.debugging /\ TimeExceeded(st)
    THEN Exc(Tick(st), "RuntimeError")
    ELSE IF st.cycles > MAX_CYCLES THEN Exc(Tick(st), "RuntimeError")
    ELSE Ok(Tick(st), None)

\* the resource checks at the entry of Interpreter.run
RunChecks(st) ==
    IF ~st.debugging /\ TimeExceeded(st)
    THEN Exc(Tick(st), "RuntimeError")
    ELSE LET s1 == [Tick(st) EXCEPT !.cycles = @ + 1]
         IN  IF s1.cycles > MAX_CYCLES THEN Exc(s1, "RuntimeError")
             ELSE Ok(s1, None)

RECURSIVE Run(_, _, _)
RECURSIVE Handler(_, _)
RECURSIVE RunList(_, _, _, _)
RECURSIVE RunBlock(_, _, _)
RECURSIVE ModuleBody(_, _, _, _)

\* [self.run(e) for e in nodes]: val is the tuple of the values
RunList(nodes, i, acc, st) ==
    IF i > Len(nodes) THEN Ok(st, TupleVal(acc))
    ELSE LET r == Run(nodes[i], TRUE, st)
         IN  IF r.exc # "none" THEN r
             ELSE RunList(nodes, i + 1, Append(acc, r.val), r.st)

\* for tnode in block: self.run(tnode)
RunBlock(block, i, st) ==
    IF i > Len(block) THEN Ok(st, None)
    ELSE LET r == Run(block[i], TRUE, st)
         IN  IF r.exc # "none" THEN r
             ELSE RunBlock(block, i + 1, r.st)

\* Interpreter.on_module
ModuleBody(body, i, out, st) ==
    IF i > Len(body) THEN Ok(st, out)
    ELSE LET r == Run(body[i], TRUE, st)
         IN  IF r.exc # "none" THEN r
             ELSE ModuleBody(body, i + 1, r.val, r.st)

\* a module that runs its statements and gives no value back
DropValue(r) == [r EXCEPT !.val = None]
on_module_None(node, st) == DropValue(ModuleBody(node.body, 1, None, st))

on_module(node, st) == ModuleBody(node.body, 1, None, st)

\* Interpreter.on_expr
on_expr(node, st) ==
    LET r == Run(node.value, TRUE, st)
    IN  IF r.exc # "none" THEN r
        ELSE Ok(tracer(r.st, "expr", "", r.val), r.val)

\* Interpreter.on_num
on_num(node, st) == Ok(st, IntVal(node.n))

\* Interpreter.on_nameconstant
on_nameconstant(node, st) == Ok(st, node.value)

\* Interpreter.on_pass
on_pass(node, st) == Ok(st, None)

\* Interpreter.on_name, Load or Store context: both read the symbol table
on_name(node, st) ==
    IF node.id \in DOMAIN st.symtable
    THEN LET val == st.symtable[node.id]
         IN  Ok(IF ReprStartsWithAngle(val) THEN st
                ELSE tracer(st, "name", node.id, val), val)
    ELSE raise_exception(st, "NameError", "none")

\* a dispatch that passes over a node without a handler
unimplemented_Skip(node, st) == Ok(st, None)

\* Interpreter.unimplemented
unimplemented(node, st) == raise_exception(st, "NotImplementedError", "none")

\* Interpreter.on_tuple (through on_list)
on_tuple(node, st) == RunList(node.elts, 1, <<>>, st)

\* Interpreter.on_arg
on_arg(node, st) == Ok(st, [k |-> "str", n |-> 0, seq |-> <<>>, s |-> node.arg])

\* astutils.valid_symbol_name: reserved words and names of unsafe builtins
\* are no symbol names
ReservedWords ==
    {"and", "as", "assert", "break", "class", "continue", "def", "del", "elif",
     "else", "except", "exec", "finally", "for", "from", "global", "if",
     "import", "in", "is", "lambda", "not", "or", "pass", "print", "raise",
     "return", "try", "while", "with", "True", "False", "None", "eval",
     "execfile", "__import__", "__package__"}

valid_symbol_name(id) == id \notin ReservedWords

\* astutils.UNSAFE_ATTRS, the deny-list of attribute names
UNSAFE_ATTRS == {"__class__", "__dict__", "__subclasses__"}

\* Python's attributes: every value has __class__, an instance has __dict__
\* and the attributes set on it; the value of a native attribute is opaque
NativeAttrs(val) == IF val.k = "object" THEN {"__class__", "__dict__"} ELSE {"__class__"}
NativeValue(val, attr) == [k |-> "native", n |-> 0, seq |-> <<>>, of |-> val, attr |-> attr]

\* hasattr(val, attr), getattr(val, attr)
HasAttr(st, val, attr) ==
    \/ attr \in NativeAttrs(val)
    \/ val.k = "object" /\ attr \in DOMAIN st.heap[val.n].attrs
GetAttr(st, val, attr) ==
    IF val.k = "object" /\ attr \in DOMAIN st.heap[val.n].attrs
    THEN st.heap[val.n].attrs[attr]
    ELSE NativeValue(val, attr)

\* setattr(val, attr, v), v a number: __class__ takes a class only and
\* __dict__ of an instance a dict only (TypeError); an instance takes any
\* other attribute, another value takes none (AttributeError)
SetAttr(st, val, attr, v) ==
    IF attr = "__class__" THEN Exc(st, "TypeError")
    ELSE IF val.k # "object" THEN Exc(st, "AttributeError")
    ELSE IF attr = "__dict__" THEN Exc(st, "TypeError")
    ELSE Ok([st EXCEPT !.heap[val.n].attrs = SetItem(@, attr, v)], None)

\* the position in a sequence of n items that the index idx names, 0 for an
\* index out of range
Position(idx, n) ==
    IF idx >= 0 /\ idx < n THEN idx + 1
    ELSE IF idx < 0 /\ idx >= 0 - n THEN n + idx + 1
    ELSE 0

\* a new list object with the given items: the value, and the heap with it
NewList(st, items) ==
    Ok([st EXCEPT !.heap = Append(@, [items |-> items, attrs |-> [x \in {} |-> None]])],
       ListVal(Len(st.heap) + 1))

\* the values that iterating over val gives; a value that is no tuple and no
\* list here is not iterable
Iterable(val) == val.k \in {"tuple", "list"}
IterValues(st, val) == IF val.k = "list" THEN st.heap[val.n].items ELSE val.seq

\* slice(lower, upper, step): a part is None or a number
SliceVal(lower, upper, step) == [k |-> "slice", n |-> 0, seq |-> <<lower, upper, step>>]

\* Python's slice.indices(n) for a step that is positive: a bound that is
\* None is the end of the sequence on its side, a negative bound counts from
\* the right, and both are clipped to 0..n
SliceBound(v, n, default) ==
    IF v = None THEN default
    ELSE IF v.n < 0 THEN (IF v.n + n < 0 THEN 0 ELSE v.n + n)
    ELSE IF v.n > n THEN n
    ELSE v.n
SliceStart(s, n) == SliceBound(s.seq[1], n, 0)
SliceStop(s, n) == SliceBound(s.seq[2], n, n)
SliceStep(s) == IF s.seq[3] = None THEN 1 ELSE s.seq[3].n
SliceCount(start, stop, step) ==
    IF stop > start THEN (stop - start + step - 1) \div step ELSE 0

\* the positions, from 1, of a sequence of n items that the slice s selects
SlicePositions(s, n) ==
    [j \in 1..SliceCount(SliceStart(s, n), SliceStop(s, n), SliceStep(s)) |->
        SliceStart(s, n) + (j - 1) * SliceStep(s) + 1]

\* the parts of the slice are None or integers, and the step is not 0
SliceValid(s) ==
    /\ \A j \in 1..3 : s.seq[j] = None \/ s.seq[j].k = "int"
    /\ s.seq[3] = None \/ s.seq[3].n > 0

\* the items of a sequence at the positions pos
ItemsAt(items, pos) == [j \in DOMAIN pos |-> items[pos[j]]]

\* val[s] for a slice s: a new list, or a tuple
GetSlice(st, val, s) ==
    IF ~SliceValid(s) THEN Exc(st, IF s.seq[3] = IntVal(0) THEN "ValueError" ELSE "TypeError")
    ELSE IF val.k = "list"
    THEN NewList(st, ItemsAt(st.heap[val.n].items,
                             SlicePositions(s, Len(st.heap[val.n].items))))
    ELSE Ok(st, TupleVal(ItemsAt(val.seq, SlicePositions(s, Len(val.seq)))))

\* items[start:stop] = vals
ReplaceRange(items, start, stop, vals) ==
    SubSeq(items, 1, start) \o vals
        \o SubSeq(items, (IF stop > start THEN stop ELSE start) + 1, Len(items))

\* items[s] = vals for a slice s with a step above 1: the positions take the
\* values, one each
ReplaceAt(items, pos, vals) ==
    [p \in DOMAIN items |->
        IF \E j \in DOMAIN pos : pos[j] = p
        THEN vals[CHOOSE j \in DOMAIN pos : pos[j] = p]
        ELSE items[p]]

\* items[s] = vals as Python does it: a range is replaced by the values, and
\* with a step above 1 each position takes one value
SliceAssigned(items, s, vals) ==
    IF SliceStep(s) = 1
    THEN ReplaceRange(items, SliceStart(s, Len(items)), SliceStop(s, Len(items)), vals)
    ELSE ReplaceAt(items, SlicePositions(s, Len(items)), vals)

\* with a step above 1 there must be as many values as positions
SliceFits(items, s, vals) ==
    SliceStep(s) = 1 \/ Len(vals) = Len(SlicePositions(s, Len(items)))

\* what sym[s] = v raises, "none" if nothing: a list takes the items of an
\* iterable v, and the slice must be one that Python accepts
SliceError(heap, sym, s, v) ==
    IF sym.k # "list" \/ ~Iterable(v) THEN "TypeError"
    ELSE IF ~SliceValid(s) THEN (IF s.seq[3] = IntVal(0) THEN "ValueError" ELSE "TypeError")
    ELSE IF SliceFits(heap[sym.n].items, s, IF v.k = "list" THEN heap[v.n].items ELSE v.seq)
    THEN "none"
    ELSE "ValueError"

\* the objects after sym[s] = v
SliceHeap(heap, sym, s, v) ==
    IF SliceError(heap, sym, s, v) # "none" THEN heap
    ELSE [heap EXCEPT ![sym.n].items =
             SliceAssigned(@, s, IF v.k = "list" THEN heap[v.n].items ELSE v.seq)]

\* sym[s] = v for a slice s
SetListSlice(st, sym, s, v) ==
    [st |-> [st EXCEPT !.heap = SliceHeap(@, sym, s, v)], val |-> None,
     exc |-> SliceError(st.heap, sym, s, v)]

\* val.__getitem__(idx): a value that is no list and no tuple has no
\* __getitem__
GetItem(st, val, idx) ==
    IF val.k \notin {"list", "tuple"} THEN Exc(st, "AttributeError")
    ELSE IF idx.k = "slice" THEN GetSlice(st, val, idx)
    ELSE IF idx.k # "int" THEN Exc(st, "TypeError")
    ELSE IF val.k = "list"
    THEN IF Position(idx.n, Len(st.heap[val.n].items)) = 0 THEN Exc(st, "IndexError")
         ELSE Ok(st, st.heap[val.n].items[Position(idx.n, Len(st.heap[val.n].items))])
    ELSE IF Position(idx.n, Len(val.seq)) = 0 THEN Exc(st, "IndexError")
         ELSE Ok(st, val.seq[Position(idx.n, Len(val.seq))])

\* sym[idx] = v: a list takes the item, another value raises TypeError
SetListItem(st, sym, idx, v) ==
    IF sym.k # "list" \/ idx.k # "int" THEN Exc(st, "TypeError")
    ELSE IF Position(idx.n, Len(st.heap[sym.n].items)) = 0 THEN Exc(st, "IndexError")
    ELSE Ok([st EXCEPT !.heap[sym.n].items[Position(idx.n, Len(st.heap[sym.n].items))] = v],
            None)

\* the end of node_assign for an Attribute or a Subscript target: r is how
\* self.run(node.value), and for a Subscript then self.run(node.slice), ended
\*   setattr(self.run(node.value), node.attr, val)
\*   sym = self.run(node.value); xslice = self.run(node.slice); sym[xslice] = val
\*   and, for a Slice, sym[slice(xslice.start, xslice.stop)] = val
AssignInto(node, val, r) ==
    IF r.exc # "none" THEN r
    ELSE IF node.t = "attribute" THEN SetAttr(r.st, r.val.seq[1], node.attr, val)
    ELSE IF node.slice.t = "slice"
    THEN SetListSlice(r.st, r.val.seq[1],
                      SliceVal(r.val.seq[2].seq[1], r.val.seq[2].seq[2], None), val)
    ELSE SetListItem(r.st, r.val.seq[1], r.val.seq[2], val)

\* the nodes that node_assign runs for an Attribute or a Subscript target
TargetNodes(node) ==
    IF node.t = "attribute" THEN <<node.value>> ELSE <<node.value, node.slice>>

RECURSIVE node_assign(_, _, _)
RECURSIVE AssignElts(_, _, _, _)
\* for telem, tval in zip(node.elts, val): self.node_assign(telem, tval)
AssignElts(elts, vals, i, st) ==
    IF i > Len(elts) THEN Ok(st, None)
    ELSE LET r == node_assign(elts[i], vals[i], st)
         IN  IF r.exc # "none" THEN r
             ELSE AssignElts(elts, vals, i + 1, r.st)

\* node_assign without the test of the lengths: zip() binds the elements
\* that have a value
node_assign_Zip(node, val, st) ==
    IF node.t = "name"
    THEN IF ~valid_symbol_name(node.id)
         THEN raise_exception(st, "NameError", "none")
         ELSE Ok(tracer([st EXCEPT !.symtable = SetItem(@, node.id, val)],
                        "assign", node.id, val), None)
    ELSE IF node.t = "tuple"
    THEN IF val.k # "tuple" THEN Exc(st, "TypeError")
         ELSE LET m == IF Len(val.seq) < Len(node.elts) THEN Len(val.seq)
                       ELSE Len(node.elts)
              IN  AssignElts(SubSeq(node.elts, 1, m), SubSeq(val.seq, 1, m), 1, st)
    ELSE IF node.t = "str"
    THEN Ok([st EXCEPT !.symtable = SetItem(@, node.s, val)], None)
    ELSE Exc(st, "ValueError")

\* node_assign without the test of the name
node_assign_AnyName(node, val, st) ==
    IF node.t = "name"
    THEN Ok(tracer([st EXCEPT !.symtable = SetItem(@, node.id, val)],
                   "assign", node.id, val), None)
    ELSE IF node.t = "tuple"
    THEN IF val.k # "tuple" THEN Exc(st, "TypeError")
         ELSE IF Len(val.seq) = Len(node.elts)
         THEN AssignElts(node.elts, val.seq, 1, st)
         ELSE Exc(st, "ValueError")
    ELSE IF node.t = "str"
    THEN Ok([st EXCEPT !.symtable = SetItem(@, node.s, val)], None)
    ELSE Exc(st, "ValueError")

\* Interpreter.node_assign, for a Name target, an Attribute target, a
\* Subscript target whose slice is an Index, a Tuple or List target and a
\* str target.  The failures of the Tuple branch are raised by Python itself
\* (len() of a value that has none) or by a plain raise: no record is made.
\* The values unpacked here are tuples or have no len().
node_assign(node, val, st) ==
    IF node.t = "name"
    THEN IF ~valid_symbol_name(node.id)
         THEN raise_exception(st, "NameError", "none")
         ELSE Ok(tracer([st EXCEPT !.symtable = SetItem(@, node.id, val)],
                        "assign", node.id, val), None)
    ELSE IF node.t = "attribute" /\ node.ctx = "Load"
    THEN raise_exception(st, "AttributeError", "none")
    ELSE IF node.t \in {"attribute", "subscript"}
    THEN AssignInto(node, val, RunList(TargetNodes(node), 1, <<>>, st))
    ELSE IF node.t = "tuple"
    THEN IF val.k # "tuple" THEN Exc(st, "TypeError")
         ELSE IF Len(val.seq) = Len(node.elts)
         THEN AssignElts(node.elts, val.seq, 1, st)
         ELSE Exc(st, "ValueError")
    ELSE IF node.t = "str"
    THEN Ok([st EXCEPT !.symtable = SetItem(@, node.s, val)], None)
    ELSE Exc(st, "ValueError")

RECURSIVE AssignTargets(_, _, _, _)
\* for tnode in node.targets: self.node_assign(tnode, val)
AssignTargets(targets, i, val, st) ==
    IF i > Len(targets) THEN Ok(st, None)
    ELSE LET r == node_assign(targets[i], val, st)
         IN  IF r.exc # "none" THEN r
             ELSE AssignTargets(targets, i + 1, val, r.st)

\* Interpreter.on_assign
on_assign(node, st) ==
    LET r == Run(node.value, TRUE, st)
    IN  IF r.exc # "none" THEN r
        ELSE AssignTargets(node.targets, 1, r.val, r.st)

\* Interpreter.on_augassign: the Assign node that it gives to on_assign
on_augassign(node) == AssignTo(node.target, BinOp(node.target, node.op, node.value))

RECURSIVE AttributePass(_, _, _)
\* on_attribute that asks the object, whatever the name is
AttributeOf_Getattr(node, pass, sym) ==
    IF sym.exc # "none" THEN sym
    ELSE IF pass = 2 THEN raise_exception(sym.st, "AttributeError", "none")
    ELSE IF HasAttr(sym.st, sym.val, node.attr)
    THEN Ok(sym.st, GetAttr(sym.st, sym.val, node.attr))
    ELSE AttributePass(node, 2, sym.st)

\* on_attribute, Load context, after a run of node.value that ended as sym:
\* the first run is `sym = self.run(node.value)`, followed by getattr when
\* the name is not on the deny-list; the second is `obj = self.run(node.value)`,
\* followed by the failure
AttributeOf(node, pass, sym) ==
    IF sym.exc # "none" THEN sym
    ELSE IF pass = 2 THEN raise_exception(sym.st, "AttributeError", "none")
    ELSE IF node.attr \notin UNSAFE_ATTRS /\ HasAttr(sym.st, sym.val, node.attr)
    THEN Ok(sym.st, GetAttr(sym.st, sym.val, node.attr))
    ELSE AttributePass(node, 2, sym.st)

\* self.run(node.value) in on_attribute: the first run, or the second
AttributePass(node, pass, st) == AttributeOf(node, pass, Run(node.value, TRUE, st))

\* Interpreter.on_attribute, Load or Store context
on_attribute(node, st) ==
    IF node.ctx = "Store" THEN raise_exception(st, "RuntimeError", "none")
    ELSE AttributePass(node, 1, st)

RECURSIVE DelBase(_)
\* on_delete: `while tnode.__class__ == ast.Attribute: tnode = tnode.value`
DelBase(tnode) == IF tnode.t = "attribute" THEN DelBase(tnode.value) ELSE tnode

\* on_delete: self.symtable.pop('.'.join(children)).  The key of an
\* Attribute target has a dot in it, and no key of the namespace has one
DelPop(tnode, st) ==
    IF tnode.t = "name" /\ tnode.id \in DOMAIN st.symtable
    THEN Ok([st EXCEPT !.symtable = Pop(@, tnode.id)], None)
    ELSE Exc(st, "KeyError")

RECURSIVE DelTargets(_, _, _)
\* the target that on_delete has dealt with is followed by the next one
DelNext(targets, i, r) == IF r.exc # "none" THEN r ELSE DelTargets(targets, i + 1, r.st)

\* on_delete: the loop over node.targets, from the i-th on
DelTargets(targets, i, st) ==
    IF i > Len(targets) \/ targets[i].ctx # "Del" THEN Ok(st, None)
    ELSE IF DelBase(targets[i]).t = "name" THEN DelNext(targets, i, DelPop(targets[i], st))
    ELSE raise_exception(st, "none", "none")

\* Interpreter.on_delete
on_delete(node, st) == DelTargets(node.targets, 1, st)

\* Interpreter.on_index
on_index(node, st) == Run(node.value, TRUE, st)

\* the end of on_slice: r is how the runs of lower, upper and step ended
SliceOf(r) ==
    IF r.exc # "none" THEN r
    ELSE Ok(r.st, SliceVal(r.val.seq[1], r.val.seq[2], r.val.seq[3]))

\* Interpreter.on_slice
on_slice(node, st) == SliceOf(RunList(<<node.lower, node.upper, node.step>>, 1, <<>>, st))

\* the end of on_subscript: r is how val = self.run(node.value) and then
\* nslice = self.run(node.slice) ended; val.__getitem__(nslice)
SubscriptOf(r) ==
    IF r.exc # "none" THEN r
    ELSE GetItem(r.st, r.val.seq[1], r.val.seq[2])

\* Interpreter.on_subscript, Load or Store context, the slice an Index
on_subscript(node, st) == SubscriptOf(RunList(<<node.value, node.slice>>, 1, <<>>, st))

IsNumber(v) == v.k \in {"int", "bool"}

\* astutils: the ceilings of the guarded operators
MAX_EXPONENT == 10000
MAX_SHIFT == 1000

\* astutils.safe_pow for two integers, the exponent not negative: the
\* exponent is tested before base ** exp is computed
safe_pow(base, exp) ==
    IF exp > MAX_EXPONENT THEN [val |-> None, exc |-> "RuntimeError"]
    ELSE [val |-> BigInt("Pow", base, exp), exc |-> "none"]

\* astutils.safe_lshift for two integers, the shift not negative
safe_lshift(a, b) ==
    IF b > MAX_SHIFT THEN [val |-> None, exc |-> "RuntimeError"]
    ELSE [val |-> BigInt("LShift", a, b), exc |-> "none"]

\* astutils.op2func: the function of an operator, applied to two values;
\* exc is the exception the native operation raises
op2func(op, a, b) ==
    CASE op = "Add" /\ IsNumber(a) /\ IsNumber(b) -> [val |-> IntVal(a.n + b.n), exc |-> "none"]
      [] op = "Sub" /\ IsNumber(a) /\ IsNumber(b) -> [val |-> IntVal(a.n - b.n), exc |-> "none"]
      [] op = "Lt" /\ IsNumber(a) /\ IsNumber(b) -> [val |-> BoolVal(a.n < b.n), exc |-> "none"]
      [] op = "Gt" /\ IsNumber(a) /\ IsNumber(b) -> [val |-> BoolVal(a.n > b.n), exc |-> "none"]
      [] op = "Eq" /\ IsNumber(a) /\ IsNumber(b) -> [val |-> BoolVal(a.n = b.n), exc |-> "none"]
      [] op = "Eq" -> [val |-> BoolVal(a = b), exc |-> "none"]
      [] op = "Pow" /\ IsNumber(a) /\ IsNumber(b) /\ b.n >= 0 -> safe_pow(a.n, b.n)
      [] op = "LShift" /\ IsNumber(a) /\ IsNumber(b) /\ b.n >= 0 -> safe_lshift(a.n, b.n)
      [] OTHER -> [val |-> None, exc |-> "TypeError"]

\* a binary operator that computes a ** b and a << b natively, whatever the
\* operands are
on_binop_Native(node, st) ==
    LET l == Run(node.left, TRUE, st)
    IN  IF l.exc # "none" THEN l
        ELSE LET r == Run(node.right, TRUE, l.st)
             IN  IF r.exc # "none" THEN r
                 ELSE Ok(tracer(r.st, "binop", node.op, BigInt(node.op, l.val.n, r.val.n)),
                         BigInt(node.op, l.val.n, r.val.n))

\* Interpreter.on_binop
on_binop(node, st) ==
    LET l == Run(node.left, TRUE, st)
    IN  IF l.exc # "none" THEN l
        ELSE LET r == Run(node.right, TRUE, l.st)
             IN  IF r.exc # "none" THEN r
                 ELSE LET f == op2func(node.op, l.val, r.val)
                      IN  IF f.exc # "none" THEN Exc(r.st, f.exc)
                          ELSE Ok(tracer(r.st, "binop", node.op, f.val), f.val)

RECURSIVE CompareLoop(_, _, _, _, _)
\* the loop of Interpreter.on_compare over zip(node.ops, node.comparators)
CompareLoop(node, i, lval, out, st) ==
    IF i > Len(node.ops) THEN Ok(st, out)
    ELSE LET r == Run(node.comparators[i], TRUE, st)
         IN  IF r.exc # "none" THEN r
             ELSE LET f == op2func(node.ops[i], lval, r.val)
                  IN  IF f.exc # "none" THEN Exc(r.st, f.exc)
                      ELSE LET s1 == tracer(r.st, "compare", node.ops[i], f.val)
                           IN  IF ~Truthy(f.val) THEN Ok(s1, f.val)
                               ELSE CompareLoop(node, i + 1, r.val, f.val, s1)

\* Interpreter.on_compare
on_compare(node, st) ==
    LET l == Run(node.left, TRUE, st)
    IN  IF l.exc # "none" THEN l
        ELSE CompareLoop(node, 1, l.val, BoolVal(TRUE), l.st)

\* astutils.op2func: the function of a unary operator, applied to a value;
\* exc is the exception the native operation raises
UnaryFunc(op, a) ==
    CASE op = "USub" /\ IsNumber(a) -> [val |-> IntVal(0 - a.n), exc |-> "none"]
      [] op = "UAdd" /\ IsNumber(a) -> [val |-> IntVal(a.n), exc |-> "none"]
      [] op = "Not" -> [val |-> BoolVal(~Truthy(a)), exc |-> "none"]
      [] OTHER -> [val |-> None, exc |-> "TypeError"]

\* the end of on_unaryop: r is how val = self.run(node.operand) ended, f is
\* func(val); no line is given to the tracer
UnaryOf(r, f) ==
    IF r.exc # "none" THEN r
    ELSE IF f.exc # "none" THEN Exc(r.st, f.exc)
    ELSE Ok(r.st, f.val)

\* func(val): the operand is read only when its run has ended well
UnaryApply(op, r) == UnaryOf(r, UnaryFunc(op, IF r.exc = "none" THEN r.val ELSE None))

\* Interpreter.on_unaryop
on_unaryop(node, st) == UnaryApply(node.op, Run(node.operand, TRUE, st))

\* astutils.op2func for And and Or: `a and b`, `a or b`
BoolFunc(op, a, b) ==
    IF op = "And" THEN (IF Truthy(a) THEN b ELSE a) ELSE (IF Truthy(a) THEN a ELSE b)

\* the test of on_boolop that ends the evaluation: a false value under and,
\* a true one under or
BoolDecided(op, val) == IF op = "And" THEN ~Truthy(val) ELSE Truthy(val)

RECURSIVE BoolValues(_, _, _, _)
\* the end of one round of the loop: r is how self.run(n) ended
BoolRound(node, i, val, r) ==
    IF r.exc # "none" THEN r
    ELSE IF BoolDecided(node.op, BoolFunc(node.op, val, r.val))
    THEN Ok(r.st, BoolFunc(node.op, val, r.val))
    ELSE BoolValues(node, i + 1, BoolFunc(node.op, val, r.val), r.st)

\* for n in node.values[1:]: val = func(val, self.run(n)), until decided
BoolValues(node, i, val, st) ==
    IF i > Len(node.values) THEN Ok(st, val)
    ELSE BoolRound(node, i, val, Run(node.values[i], TRUE, st))

\* the last line of on_boolop: r is how the evaluation of the values ended
BoolTraced(node, r) ==
    IF r.exc # "none" THEN r
    ELSE Ok(tracer(r.st, "boolop", node.op, r.val), r.val)

\* on_boolop after val = self.run(node.values[0]), which ended as r
BoolFirst(node, r) ==
    IF r.exc # "none" THEN r
    ELSE IF BoolDecided(node.op, r.val) THEN BoolTraced(node, r)
    ELSE BoolTraced(node, BoolValues(node, 2, r.val, r.st))

\* Interpreter.on_boolop
on_boolop(node, st) == BoolFirst(node, Run(node.values[1], TRUE, st))

\* Interpreter.on_return
on_return(node, st) ==
    LET r == Run(node.value, TRUE, st)
    IN  IF r.exc # "none" THEN r
        ELSE Ok([r.st EXCEPT !.retval = IF r.val = None THEN ReturnedNone ELSE r.val],
                None)

\* Interpreter.on_interrupt, reached from on_break and on_continue
on_interrupt(node, st) ==
    Ok([st EXCEPT !.interrupt = node.t],
       [k |-> "node", n |-> 0, seq |-> <<>>, t |-> node.t])

\* Interpreter.on_if
on_if(node, st) ==
    LET c == Run(node.test, TRUE, st)
    IN  IF c.exc # "none" THEN c
        ELSE RunBlock(IF Truthy(c.val) THEN node.body ELSE node.orelse, 1, c.st)

\* Interpreter.on_assert
on_assert(node, st) ==
    LET c == Run(node.test, TRUE, st)
    IN  IF c.exc # "none" THEN c
        ELSE IF ~Truthy(c.val) THEN raise_exception(c.st, "AssertionError", "none")
        ELSE Ok(c.st, BoolVal(TRUE))

RECURSIVE CompIfs(_, _, _, _)
\* for cond in tnode.ifs: add = add and self.run(cond)
CompIfs(ifs, j, add, st) ==
    IF j > Len(ifs) THEN [st |-> st, val |-> add, exc |-> "none"]
    ELSE IF ~add THEN CompIfs(ifs, j + 1, add, st)
    ELSE LET c == Run(ifs[j], TRUE, st)
         IN  IF c.exc # "none" THEN c
             ELSE CompIfs(ifs, j + 1, Truthy(c.val), c.st)

\* out.append(self.run(node.elt)) if add: c is how the conditions ended
CompAppend(node, out, c) ==
    IF c.exc # "none" \/ ~c.val THEN [st |-> c.st, val |-> out, exc |-> c.exc]
    ELSE LET e == Run(node.elt, TRUE, c.st)
         IN  IF e.exc # "none" THEN e
             ELSE [st |-> e.st, val |-> Append(out, e.val), exc |-> "none"]

RECURSIVE CompValues(_, _, _, _, _, _)
\* the next value of the iterable, once the element of this one is appended:
\* b is how `if add: out.append(self.run(node.elt))` ended
CompNext(node, tnode, vals, i, b) ==
    IF b.exc # "none" THEN b
    ELSE CompValues(node, tnode, vals, i + 1, b.val, b.st)

\* the conditions and the element, once the target is bound: a is how
\* self.node_assign(tnode.target, val) ended
CompBound(node, tnode, vals, i, out, a) ==
    IF a.exc # "none" THEN a
    ELSE CompNext(node, tnode, vals, i,
                  CompAppend(node, out, CompIfs(tnode.ifs, 1, TRUE, a.st)))

\* for val in self.run(tnode.iter): self.node_assign(tnode.target, val); ...
CompValues(node, tnode, vals, i, out, st) ==
    IF i > Len(vals) THEN [st |-> st, val |-> out, exc |-> "none"]
    ELSE CompBound(node, tnode, vals, i, out, node_assign(tnode.target, vals[i], st))

RECURSIVE CompGenerators(_, _, _, _)
\* the next generator, once the values of this one are done
CompNextGenerator(node, g, v) ==
    IF v.exc # "none" THEN v
    ELSE CompGenerators(node, g + 1, v.val, v.st)

\* the loop over the values of a generator: it is how self.run(tnode.iter)
\* ended
CompIter(node, g, out, it) ==
    IF it.exc # "none" THEN it
    ELSE IF ~Iterable(it.val) THEN Exc(it.st, "TypeError")
    ELSE CompNextGenerator(node, g,
             CompValues(node, node.generators[g], IterValues(it.st, it.val), 1, out, it.st))

\* for tnode in node.generators: the generators run one after the other
CompGenerators(node, g, out, st) ==
    IF g > Len(node.generators) THEN NewList(st, out)
    ELSE CompIter(node, g, out, Run(node.generators[g].iter, TRUE, st))

\* Interpreter.on_listcomp
on_listcomp(node, st) == CompGenerators(node, 1, <<>>, st)

RECURSIVE LoopBody(_, _, _)
\* the inner loop of on_while and on_for:
\*   for tnode in node.body: self.run(tnode); if self._interrupt is not None: break
LoopBody(body, i, st) ==
    IF i > Len(body) THEN Ok(st, None)
    ELSE LET r == Run(body[i], TRUE, st)
         IN  IF r.exc # "none" THEN r
             ELSE IF r.st.interrupt # "none" THEN Ok(r.st, None)
             ELSE LoopBody(body, i + 1, r.st)

\* the else clause of a loop, then self._interrupt = None
LoopElse(orelse, st) ==
    LET e == RunBlock(orelse, 1, st)
    IN  IF e.exc # "none" THEN e
        ELSE Ok([e.st EXCEPT !.interrupt = "none"], None)

RECURSIVE on_while(_, _)
\* Interpreter.on_while
on_while(node, st) ==
    LET c == Run(node.test, TRUE, st)
    IN  IF c.exc # "none" THEN c
        ELSE IF ~Truthy(c.val) THEN LoopElse(node.orelse, c.st)
        ELSE LET b == LoopBody(node.body, 1, [c.st EXCEPT !.interrupt = "none"])
             IN  IF b.exc # "none" THEN b
                 ELSE IF b.st.interrupt = "break"
                 THEN Ok([b.st EXCEPT !.interrupt = "none"], None)
                 ELSE on_while(node, b.st)

RECURSIVE ForLoop_ElseAlways(_, _, _, _)
\* ForLoop whose else clause also runs after a break
ForLoop_ElseAlways(node, vals, i, st) ==
    IF i > Len(vals) THEN LoopElse(node.orelse, st)
    ELSE LET a == node_assign(node.target, vals[i], st)
         IN  IF a.exc # "none" THEN a
             ELSE LET b == LoopBody(node.body, 1, [a.st EXCEPT !.interrupt = "none"])
                  IN  IF b.exc # "none" THEN b
                      ELSE IF b.st.interrupt = "break"
                      THEN LoopElse(node.orelse, b.st)
                      ELSE ForLoop_ElseAlways(node, vals, i + 1, b.st)

RECURSIVE ForLoop(_, _, _, _)
\* the loop of Interpreter.on_for over the values of the iterable
ForLoop(node, vals, i, st) ==
    IF i > Len(vals) THEN LoopElse(node.orelse, st)
    ELSE LET a == node_assign(node.target, vals[i], st)
         IN  IF a.exc # "none" THEN a
             ELSE LET b == LoopBody(node.body, 1, [a.st EXCEPT !.interrupt = "none"])
                  IN  IF b.exc # "none" THEN b
                      ELSE IF b.st.interrupt = "break"
                      THEN Ok([b.st EXCEPT !.interrupt = "none"], None)
                      ELSE ForLoop(node, vals, i + 1, b.st)

\* Interpreter.on_for
on_for(node, st) ==
    LET it == Run(node.iter, TRUE, st)
    IN  IF it.exc # "none" THEN it
        ELSE IF it.val.k # "tuple" THEN Exc(it.st, "TypeError")
        ELSE ForLoop(node, it.val.seq, 1, it.st)

RECURSIVE HandlerBody(_, _, _)
\* for ebody in node.body: self.run(ebody, with_raise=False)
HandlerBody(body, i, st) ==
    IF i > Len(body) THEN Ok(st, None)
    ELSE LET r == Run(body[i], FALSE, st)
         IN  IF r.exc # "none" THEN r
             ELSE HandlerBody(body, i + 1, r.st)

\* an except block that runs only for the exception class it declares
on_excepthandler_Typed(node, st) ==
    IF node.type # "" /\ st.last_error # ExcValue(node.type)
    THEN Ok(st, None)
    ELSE IF node.name # "" /\ Truthy(st.last_error)
    THEN LET a == node_assign([t |-> "str", s |-> node.name], st.last_error, st)
         IN  IF a.exc # "none" THEN a
             ELSE HandlerBody(node.body, 1, a.st)
    ELSE HandlerBody(node.body, 1, st)

\* Interpreter.on_excepthandler
on_excepthandler(node, st) ==
    IF node.name # "" /\ Truthy(st.last_error)
    THEN LET a == node_assign([t |-> "str", s |-> node.name], st.last_error, st)
         IN  IF a.exc # "none" THEN a
             ELSE HandlerBody(node.body, 1, a.st)
    ELSE HandlerBody(node.body, 1, st)

\* the else and finally parts of Interpreter.on_try
TryTail(node, no_errors, st) ==
    LET e == IF no_errors
             THEN RunBlock(node.orelse, 1, tracer(st, "else", "", None))
             ELSE Ok(st, None)
    IN  IF e.exc # "none" THEN e
        ELSE RunBlock(node.finalbody, 1, tracer(e.st, "finally", "", None))

RECURSIVE TryBody(_, _, _)
\* the loop of Interpreter.on_try over node.body, and what follows it
TryBody(node, i, st) ==
    IF i > Len(node.body) THEN TryTail(node, TRUE, st)
    ELSE LET r == Run(node.body[i], FALSE, st)
         IN  IF r.exc # "none" THEN r
             ELSE IF r.st.error # <<>>
             THEN LET info == r.st.error[Len(r.st.error)].info
                      s1 == [r.st EXCEPT
                                !.last_error = IF info = "none" THEN None
                                               ELSE ExcValue(info),
                                !.error = <<>>]
                      h == RunBlock(node.handlers, 1, s1)
                  IN  IF h.exc # "none" THEN h
                      ELSE TryTail(node, FALSE, [h.st EXCEPT !.last_error = None])
             ELSE TryBody(node, i + 1, r.st)

\* Interpreter.on_try
on_try(node, st) == TryBody(node, 1, st)

RECURSIVE Defaults(_, _, _, _)
\* the loop of on_functiondef over node.args.defaults: the (name, default) pairs
Defaults(node, idef, acc, st) ==
    IF idef > Len(node.defaults) THEN Ok(st, TupleVal(acc))
    ELSE LET offset == Len(node.argnames) - Len(node.defaults)
             d == Run(node.defaults[idef], TRUE, st)
         IN  IF d.exc # "none" THEN d
             ELSE LET a == Run([t |-> "arg", arg |-> node.argnames[idef + offset]],
                               TRUE, d.st)
                  IN  IF a.exc # "none" THEN a
                      ELSE Defaults(node, idef + 1,
                                    Append(acc, [key |-> node.argnames[idef + offset],
                                                 val |-> d.val]), a.st)

\* Interpreter.on_functiondef
on_functiondef(node, st) ==
    LET d == Defaults(node, 1, <<>>, st)
    IN  IF d.exc # "none" THEN d
        ELSE LET offset == Len(node.argnames) - Len(node.defaults)
                 p == [name |-> node.name,
                       argnames |-> SubSeq(node.argnames, 1, offset),
                       kwargs |-> d.val.seq,
                       vararg |-> node.vararg, varkws |-> node.kwarg,
                       body |-> node.body]
             IN  Ok([d.st EXCEPT !.symtable = SetItem(@, node.name, ProcValue(p))], None)

EmptyDict == [x \in {} |-> None]

\* no keyword argument is moved to the positional ones
MoveKw_Nothing(argnames, i, args, kwargs) == [args |-> args, kwargs |-> kwargs]

RECURSIVE MoveKw(_, _, _, _)
\* for name in self.argnames[n_args:]:
\*     if name in kwargs: args.append(kwargs.pop(name))
MoveKw(argnames, i, args, kwargs) ==
    IF i > Len(argnames) THEN [args |-> args, kwargs |-> kwargs]
    ELSE IF argnames[i] \in DOMAIN kwargs
    THEN MoveKw(argnames, i + 1, Append(args, kwargs[argnames[i]]), Pop(kwargs, argnames[i]))
    ELSE MoveKw(argnames, i + 1, args, kwargs)

RECURSIVE ProcBody(_, _, _)
\* the loop of Procedure.__call__ over self.body; val is the local retval
ProcBody(body, i, st) ==
    IF i > Len(body) THEN Ok(st, None)
    ELSE LET r == Run(body[i], TRUE, st)
         IN  IF r.exc # "none" THEN r
             ELSE IF r.st.error # <<>> THEN Ok(r.st, None)
             ELSE IF r.st.retval # None
             THEN Ok(r.st, IF r.st.retval = ReturnedNone THEN None ELSE r.st.retval)
             ELSE ProcBody(body, i + 1, r.st)

\* ProcRun without its last assignment: the overlaid namespace is kept
ProcRun_NoRestore(p, symlocals, st) ==
    ProcBody(p.body, 1, [st EXCEPT !.symtable = Update(@, symlocals), !.retval = None])

\* save_symtable = self.__asteval__.symtable.copy(): a new dict object, the
\* last of nsdicts, with the items the namespace has
CopySymtable(st) == [st EXCEPT !.nsdicts = Append(@, st.symtable)]

\* self.__asteval__.symtable = save_symtable: the dict that was the namespace
\* keeps the items it has, and the instance refers to the dict save_symtable
SetSymtable(st, save_symtable) ==
    [st EXCEPT !.nsdicts = [@ EXCEPT ![st.symid] = st.symtable],
               !.symid = save_symtable,
               !.symtable = st.nsdicts[save_symtable]]

\* the end of Procedure.__call__ after the loop over the body
ProcRestore(b, save_symtable) ==
    IF b.exc # "none" THEN b
    ELSE Ok(SetSymtable(b.st, save_symtable), b.val)

\* the end of Procedure.__call__, st having the copy save_symtable as the
\* last of its dicts: overlay, run the body, restore
ProcOverlay(p, symlocals, st) ==
    ProcRestore(ProcBody(p.body, 1, [st EXCEPT !.symtable = Update(@, symlocals),
                                               !.retval = None]),
                Len(st.nsdicts))

\* the end of Procedure.__call__: snapshot, overlay, run the body, restore
ProcRun(p, symlocals, st) == ProcOverlay(p, symlocals, CopySymtable(st))

\* ProcBind that drops the keyword arguments left over
ProcBind_IgnoreExtra(p, args, kwargs, st) ==
    LET n_names == Len(p.argnames)
        required == [x \in {p.argnames[i] : i \in 1..n_names} |->
                        args[CHOOSE i \in 1..n_names : p.argnames[i] = x]]
        withvar == IF p.vararg # ""
                   THEN SetItem(required, p.vararg,
                                TupleVal(SubSeq(args, n_names + 1, Len(args))))
                   ELSE required
        optnames == {p.kwargs[i].key : i \in 1..Len(p.kwargs)}
        optional == [x \in optnames |->
                        IF x \in DOMAIN kwargs THEN kwargs[x]
                        ELSE p.kwargs[CHOOSE i \in 1..Len(p.kwargs) :
                                          p.kwargs[i].key = x].val]
    IN  IF p.varkws # ""
        THEN ProcRun(p, SetItem(Update(withvar, optional), p.varkws,
                                [k |-> "dict", n |-> 0, seq |-> <<>>, d |-> EmptyDict]),
                     st)
        ELSE ProcRun(p, Update(withvar, optional), st)

\* Procedure.__call__ from the binding of the arguments on: symlocals, the
\* keyword arguments left over, and the body
ProcBind(p, args, kwargs, st) ==
    LET n_names == Len(p.argnames)
        required == [x \in {p.argnames[i] : i \in 1..n_names} |->
                        args[CHOOSE i \in 1..n_names : p.argnames[i] = x]]
        withvar == IF p.vararg # ""
                   THEN SetItem(required, p.vararg,
                                TupleVal(SubSeq(args, n_names + 1, Len(args))))
                   ELSE required
        optnames == {p.kwargs[i].key : i \in 1..Len(p.kwargs)}
        optional == [x \in optnames |->
                        IF x \in DOMAIN kwargs THEN kwargs[x]
                        ELSE p.kwargs[CHOOSE i \in 1..Len(p.kwargs) :
                                          p.kwargs[i].key = x].val]
        leftover == [x \in DOMAIN kwargs \ optnames |-> kwargs[x]]
    IN  IF p.varkws # ""
        THEN ProcRun(p, SetItem(Update(withvar, optional), p.varkws,
                                [k |-> "dict", n |-> 0, seq |-> <<>>, d |-> leftover]),
                     st)
        ELSE IF DOMAIN leftover # {}
        THEN raise_exc(raise_exc(st, "TypeError", "none",
                                 Msg("extra keyword arguments", DOMAIN leftover, 0, 0)).st,
                       "none", "TypeError", Msg("incorrect arguments", {}, 0, 0))
        ELSE ProcRun(p, Update(withvar, optional), st)

\* the first of self.argnames that is in kwargs
FirstIn(argnames, kwargs) ==
    argnames[CHOOSE i \in 1..Len(argnames) :
                 /\ argnames[i] \in DOMAIN kwargs
                 /\ \A j \in 1..(i - 1) : argnames[j] \notin DOMAIN kwargs]

\* the failure of a call with too few arguments, with a msg that gives the
\* declared count twice
NotEnoughArguments_Declared(st, n_names, n_args) ==
    raise_exc(st, "TypeError", "none", Msg("not enough arguments", {}, n_names, n_names))

\* the failure of a call with too few arguments
NotEnoughArguments(st, n_names, n_args) ==
    raise_exc(st, "TypeError", "none", Msg("not enough arguments", {}, n_names, n_args))

\* ProcArgs without the test for names given twice
ProcArgs_NoDuplicateTest(p, args, kwargs, st) ==
    IF Len(args) < Len(p.argnames)
    THEN NotEnoughArguments(st, Len(p.argnames), Len(args))
    ELSE ProcBind(p, args, kwargs, st)

\* Procedure.__call__ from the tests of the arguments on
ProcArgs(p, args, kwargs, st) ==
    IF \E i \in 1..Len(p.argnames) : p.argnames[i] \in DOMAIN kwargs
    THEN raise_exc(st, "TypeError", "none",
                   Msg("multiple values for keyword argument",
                       {FirstIn(p.argnames, kwargs)}, 0, 0))
    ELSE IF Len(args) < Len(p.argnames)
    THEN NotEnoughArguments(st, Len(p.argnames), Len(args))
    ELSE ProcBind(p, args, kwargs, st)

\* Procedure.__call__(*args0, **kwargs0)
ProcCall(p, args0, kwargs0, st) ==
    IF Len(args0) < Len(p.argnames) /\ DOMAIN kwargs0 # {}
    THEN LET moved == MoveKw(p.argnames, Len(args0) + 1, args0, kwargs0)
         IN  ProcArgs(p, moved.args, moved.kwargs, st)
    ELSE ProcArgs(p, args0, kwargs0, st)

\* func(*args, **keywords) in on_call: a Procedure, or a host function
CallFunc(func, args, keywords, st) ==
    IF func.k = "proc" THEN ProcCall(func.proc, args, keywords, st)
    ELSE Ok(st, None)

RECURSIVE RunKeywords(_, _, _, _)
\* for key in node.keywords: keywords[key.arg] = self.run(key.value)
RunKeywords(kws, i, acc, st) ==
    IF i > Len(kws) THEN [st |-> st, val |-> acc, exc |-> "none"]
    ELSE LET r == Run(kws[i].value, TRUE, st)
         IN  IF r.exc # "none" THEN r
             ELSE RunKeywords(kws, i + 1, SetItem(acc, kws[i].arg, r.val), r.st)

\* on_call after func(*args, **keywords): c is how the call ended
CallEnd(name, c) ==
    IF c.exc # "none"
    THEN raise_exception(tracer(c.st, "raised", name, None), "none", c.exc)
    ELSE Ok(tracer(c.st, "call", name, c.val), c.val)

\* on_call from the keywords on: kw is how their evaluation ended
CallKeywords(func, args, kw) ==
    IF kw.exc # "none" THEN kw
    ELSE CallEnd(IF func.k = "proc" THEN func.proc.name ELSE "print",
                 CallFunc(func, args, kw.val, kw.st))

\* on_call from the arguments on: a is how their evaluation ended
CallArgs(node, func, a) ==
    IF a.exc # "none" THEN a
    ELSE CallKeywords(func, a.val.seq, RunKeywords(node.keywords, 1, EmptyDict, a.st))

\* on_call after func = self.run(node.func): f is how that ended
CallFuncValue(node, f) ==
    IF f.exc # "none" THEN f
    ELSE IF ~Callable(f.val) THEN raise_exception(f.st, "TypeError", "none")
    ELSE CallArgs(node, f.val, RunList(node.args, 1, <<>>, f.st))

\* Interpreter.on_call
on_call(node, st) == CallFuncValue(node, Run(node.func, TRUE, st))

\* Interpreter.node_handlers[node.__class__.__name__.lower()](node)
Handler(node, st) ==
    CASE node.t = "module" -> on_module(node, st)
      [] node.t = "expr" -> on_expr(node, st)
      [] node.t = "num" -> on_num(node, st)
      [] node.t = "nameconstant" -> on_nameconstant(node, st)
      [] node.t = "pass" -> on_pass(node, st)
      [] node.t = "assert" -> on_assert(node, st)
      [] node.t = "attribute" -> on_attribute(node, st)
      [] node.t = "subscript" -> on_subscript(node, st)
      [] node.t = "index" -> on_index(node, st)
      [] node.t = "delete" -> on_delete(node, st)
      [] node.t = "slice" -> on_slice(node, st)
      [] node.t = "listcomp" -> on_listcomp(node, st)
      [] node.t = "name" -> on_name(node, st)
      [] node.t = "tuple" -> on_tuple(node, st)
      [] node.t = "arg" -> on_arg(node, st)
      [] node.t \in {"assign", "augassign"} ->
            on_assign(IF node.t = "augassign" THEN on_augassign(node) ELSE node, st)
      [] node.t = "binop" -> on_binop(node, st)
      [] node.t = "compare" -> on_compare(node, st)
      [] node.t = "unaryop" -> on_unaryop(node, st)
      [] node.t = "boolop" -> on_boolop(node, st)
      [] node.t = "return" -> on_return(node, st)
      [] node.t \in {"break", "continue"} -> on_interrupt(node, st)
      [] node.t = "if" -> on_if(node, st)
      [] node.t = "while" -> on_while(node, st)
      [] node.t = "for" -> on_for(node, st)
      [] node.t = "excepthandler" -> on_excepthandler(node, st)
      [] node.t = "try" -> on_try(node, st)
      [] node.t = "functiondef" -> on_functiondef(node, st)
      [] node.t = "call" -> on_call(node, st)

\* Interpreter.run without the test of self.error
Run_NotSticky(node, with_raise, st) ==
    LET c == RunChecks(st)
    IN  IF c.exc # "none" THEN c
        ELSE IF node.t = "None" THEN Ok(c.st, None)
        ELSE IF node.t \notin supported_nodes THEN unimplemented(node, c.st)
        ELSE LET r == Handler(node, c.st)
             IN  IF r.exc = "none" THEN r
                 ELSE IF with_raise THEN raise_exception(r.st, "none", r.exc)
                 ELSE Ok(r.st, None)

\* Interpreter.run(node, with_raise=with_raise)
Run(node, with_raise, st) ==
    LET c == RunChecks(st)
    IN  IF c.exc # "none" THEN c
        ELSE IF c.st.error # <<>> THEN Ok(c.st, None)
        ELSE IF node.t = "None" THEN Ok(c.st, None)
        ELSE IF node.t \notin supported_nodes THEN unimplemented(node, c.st)
        ELSE LET r == Handler(node, c.st)
             IN  IF r.exc = "none" THEN r
                 ELSE IF with_raise THEN raise_exception(r.st, "none", r.exc)
                 ELSE Ok(r.st, None)

\* the line of the first line of a text that is no Python
FirstGarbage(lines) ==
    CHOOSE i \in 1..Len(lines) :
        lines[i] = Garbage /\ \A j \in 1..(i - 1) : lines[j] # Garbage

\* the record that the raise_exception call that ended as r made, with the
\* lineno given to it
WithLineno(r, lineno) ==
    [r EXCEPT !.st.error[Len(r.st.error)] =
                  [exc |-> @.exc, info |-> @.info, msg |-> @.msg, lineno |-> lineno]]

\* a parser that gives the tree of the lines before the first one that is no
\* Python
parse_Prefix(st, text) ==
    IF text.t # "text" THEN Ok(st, text)
    ELSE IF \E i \in 1..Len(text.lines) : text.lines[i] = Garbage
    THEN Ok(st, Module(SubSeq(text.lines, 1, FirstGarbage(text.lines) - 1)))
    ELSE Ok(st, Module(text.lines))

\* Interpreter.parse(text): ast.parse gives the tree of a text, and gives a
\* tree back as it is; a SyntaxError is recorded with its msg and its lineno
parse(st, text) ==
    IF text.t # "text" THEN Ok(st, text)
    ELSE IF \E i \in 1..Len(text.lines) : text.lines[i] = Garbage
    THEN WithLineno(raise_exc(st, "none", "SyntaxError", Msg("Syntax Error", {}, 0, 0)),
                    FirstGarbage(text.lines))
    ELSE Ok(st, Module(text.lines))

\* the first statements of Interpreter.eval.  deadline is the clock's part:
\* self.start = time() and what the clock does after it (TimeExceeded)
EvalReset(st, deadline) ==
    [st EXCEPT !.error = <<>>, !.trace = <<>>, !.cycles = 0,
               !.ticks = 0, !.deadline = deadline]

\* the end of Interpreter.eval: r is how parse() or run() ended
EvalEnd(r, show_errors) ==
    IF r.exc = "none"
    THEN [st |-> r.st, out |-> [kind |-> "returned", val |-> r.val, exc |-> "none"]]
    ELSE IF ~show_errors
    THEN [st |-> r.st,
          out |-> [kind |-> "raised", val |-> None,
                   exc |-> IF r.st.error = <<>> THEN "RuntimeError"
                           ELSE IF r.st.error[1].exc = "none" THEN "TypeError"
                           ELSE r.st.error[1].exc]]
    ELSE [st |-> r.st, out |-> [kind |-> "printed", val |-> None, exc |-> "none"]]

\* Interpreter.eval after self.parse(expr): p is how parse() ended
EvalParsed(p, show_errors) ==
    IF p.exc # "none" THEN EvalEnd(p, show_errors)
    ELSE EvalEnd(Run(p.val, TRUE, p.st), show_errors)

\* Interpreter.eval(expr, show_errors=show_errors)
eval(st, script, show_errors, deadline) ==
    EvalParsed(parse(EvalReset(st, deadline), script), show_errors)

\* Interpreter.__init__(): the fields of a new instance.  symtable holds the
\* items of the dict that self.symtable refers to; symid is which dict object
\* that is, among nsdicts, the dicts that have been a namespace of the instance
\* or a copy of it (the items of nsdicts[symid] are those of symtable)
NewInterpreter ==
    [debugging |-> FALSE, ticks |-> 0, deadline |-> 0, cycles |-> 0,
     trace_enabled |-> TRUE, trace |-> <<>>,
     symtable |-> [x \in {"print"} |-> Builtin(0)],
     interrupt |-> "none", error |-> <<>>, retval |-> None, last_error |-> None,
     heap |-> <<>>, symid |-> 1, nsdicts |-> <<EmptyDict>>]

(***************************************************************************)
(* The host session.  A session evaluates scripts on one instance; the     *)
(* scripts are drawn from the family of the session.                       *)
(***************************************************************************)
MaxBody == 2        \* statements in a generated block
MaxEvals == 2       \* eval() calls in a session
MaxDeadline == 12   \* latest run() call at which the clock can run out
MaxPos == 4         \* positional arguments of a generated call
MaxKw == 3          \* keyword arguments of a generated call

\* all sequences of 1..maxlen numbers in 1..k: the codes of generated blocks
Codes(k, maxlen) == UNION {[1..n -> 1..k] : n \in 1..maxlen}

\* the statements a generated procedure body is made of
ProcStmt ==
    << Assign("y", Name("x")),
       Assign("g", Num(7)),
       Return(Name("x")),
       Return(NameConstant(None)),
       Expr(Name("und")),
       If(Name("x"), <<Return(Num(3)), Assign("y", Num(4))>>, <<>>),
       For("i", TupleNode(<<Num(1), Num(2)>>), <<Return(Name("i"))>>, <<>>),
       Expr(Call(Name("q"), <<>>)),
       Try(<<Expr(Name("und"))>>, <<ExceptHandler("", "", <<Pass>>)>>, <<>>, <<>>),
       Pass >>

Block(stmts, code) == [i \in 1..Len(code) |-> stmts[code[i]]]

\* g = 1; x = 2; def q(): return 5; def f(x): <body>
ProcDefScript(code) ==
    Module(<< Assign("g", Num(1)), Assign("x", Num(2)),
              FunctionDef("q", <<>>, <<Return(Num(5))>>),
              FunctionDef("f", <<"x">>, Block(ProcStmt, code)) >>)

\* f(a)
ProcCallScript(a) == Module(<<Expr(Call(Name("f"), <<Num(a)>>))>>)

\* the statements of a generated procedure body with returns in it
RetStmt ==
    << Assign("m", Num(1)),
       Return(Name("r1")),
       Return(Name("r2")),
       If(Name("x"), <<Return(Name("r1")), Assign("m", Num(1))>>, <<>>),
       If(Name("x"), <<Assign("m", Num(1)), Return(Name("r1"))>>, <<>>),
       For("i", TupleNode(<<Num(1), Num(2)>>), <<Return(Name("i"))>>, <<>>),
       For("i", TupleNode(<<Num(1), Num(2)>>),
           <<Return(Name("r1")), Assign("m", Num(1))>>, <<>>),
       While(Name("x"), <<Return(Name("r1"))>>, <<>>),
       Return(NameConstant(None)) >>

\* r1 = 3; r2 = 4; def f(x): <body>
RetDefScript(code) ==
    Module(<< Assign("r1", Num(3)), Assign("r2", Num(4)),
              FunctionDef("f", <<"x">>, Block(RetStmt, code)) >>)

\* the statements of a generated try body: each makes two run() calls
TryStmt == << Assign("a", Num(1)), Expr(Name("und")) >>

\* the handler lists of a generated try statement
TryHandlers ==
    << <<>>,
       <<ExceptHandler("", "", <<Assign("h", Num(1))>>)>>,
       <<ExceptHandler("", "", <<Expr(Name("und2")), Assign("h", Num(1))>>)>>,
       <<ExceptHandler("", "err", <<Assign("h", Num(1))>>)>>,
       <<ExceptHandler("", "", <<Assign("h", Num(1))>>),
         ExceptHandler("", "", <<Assign("h2", Num(2))>>)>>,
       <<ExceptHandler("ValueError", "", <<Assign("h", Num(1))>>),
         ExceptHandler("NameError", "", <<Assign("h2", Num(2))>>)>> >>

\* try: <body> <handlers> [else: e = 1] [finally: c = 3], then [d = 4]
TryScript(code, h, e, f, d) ==
    Module(<< Try(Block(TryStmt, code), TryHandlers[h],
                  IF e = 1 THEN <<Assign("e", Num(1))>> ELSE <<>>,
                  IF f = 1 THEN <<Assign("c", Num(3))>> ELSE <<>>) >>
           \o (IF d = 1 THEN <<Assign("d", Num(4))>> ELSE <<>>))

\* the try statements Python's grammar has: handlers or a finally, and an
\* else only after handlers
TryScripts ==
    {TryScript(x[1], x[2], x[3], x[4], x[5]) :
        x \in {y \in Codes(Len(TryStmt), MaxBody) \X (1..Len(TryHandlers))
                        \X (0..1) \X (0..1) \X (0..1) :
                  y[2] # 1 \/ (y[3] = 0 /\ y[4] = 1)}}

\* scripts that spend the budgets
BudgetScript ==
    << Module(<<While(NameConstant(BoolVal(TRUE)), <<Pass>>, <<>>)>>),
       Module(<<While(NameConstant(BoolVal(TRUE)), <<Assign("x", Num(1))>>, <<>>)>>),
       Module(<<Assign("i", Num(0)),
                While(Compare(Name("i"), "Lt", Num(2)),
                      <<Assign("i", BinOp(Name("i"), "Add", Num(1)))>>, <<>>)>>),
       Module(<<For("i", TupleNode(<<Num(1), Num(2)>>), <<Assign("x", Name("i"))>>, <<>>)>>),
       Module(<<Assign("x", Num(1))>>),
       Module(<<Try(<<While(NameConstant(BoolVal(TRUE)), <<Pass>>, <<>>)>>,
                    <<ExceptHandler("", "", <<Pass>>)>>, <<>>, <<>>)>>) >>

\* the statements of a generated loop body
LoopStmt ==
    << Assign("m", Name("i")),
       Break,
       Continue,
       If(Name("i"), <<Break, Assign("n", Name("i"))>>, <<>>),
       If(Name("i"), <<Continue, Assign("n", Name("i"))>>, <<>>),
       If(Name("i"), <<Break, Continue>>, <<>>),
       If(Compare(Name("i"), "Gt", Num(1)), <<Assign("m", Name("i")), Break>>, <<>>),
       For("j", TupleNode(<<Num(1), Num(2)>>), <<Break>>, <<>>) >>

\* for i in (1, 2, 3): <body> [else: z = 1]
ForScript(code, e) ==
    Module(<< For("i", TupleNode(<<Num(1), Num(2), Num(3)>>), Block(LoopStmt, code),
                  IF e = 1 THEN <<Assign("z", Num(1))>> ELSE <<>>) >>)

\* i = 0; while i < 3: i = i + 1; <body> [else: z = 1]
WhileScript(code, e) ==
    Module(<< Assign("i", Num(0)),
              While(Compare(Name("i"), "Lt", Num(3)),
                    <<Assign("i", BinOp(Name("i"), "Add", Num(1)))>>
                        \o Block(LoopStmt, code),
                    IF e = 1 THEN <<Assign("z", Num(1))>> ELSE <<>>) >>)

\* the statements of a generated block of assignments: a, b = 1, 2;
\* a, b = 1, 2, 3; a, b = (1,); a = 1 + None; und
UnpackStmt ==
    << AssignTuple(<<"a", "b">>, TupleNode(<<Num(1), Num(2)>>)),
       AssignTuple(<<"a", "b">>, TupleNode(<<Num(1), Num(2), Num(3)>>)),
       AssignTuple(<<"a", "b">>, TupleNode(<<Num(1)>>)),
       Assign("a", BinOp(Num(1), "Add", NameConstant(None))),
       Expr(Name("und")) >>

\* <stmts>, or try: <stmts> except: h = 1 else: e = 1 finally: c = 3,
\* and then d = 4
UnpackScript(code, t) ==
    Module((IF t = 1
            THEN <<Try(Block(UnpackStmt, code),
                       <<ExceptHandler("", "", <<Assign("h", Num(1))>>)>>,
                       <<Assign("e", Num(1))>>, <<Assign("c", Num(3))>>)>>
            ELSE Block(UnpackStmt, code))
           \o <<Assign("d", Num(4))>>)

\* def f(x, y, z): m = x; n = y; q = z
\* def v(x, *r): m = x; n = r
\* def k(x, o=5, **kw): m = x; n = o; q = kw
\* def p(x, o=5): m = x; n = o
ArgsDefScript ==
    Module(<< FunctionDefArgs("f", <<"x", "y", "z">>, <<>>, "", "",
                  <<Assign("m", Name("x")), Assign("n", Name("y")), Assign("q", Name("z"))>>),
              FunctionDefArgs("v", <<"x">>, <<>>, "r", "",
                  <<Assign("m", Name("x")), Assign("n", Name("r"))>>),
              FunctionDefArgs("k", <<"x", "o">>, <<Num(5)>>, "", "kw",
                  <<Assign("m", Name("x")), Assign("n", Name("o")), Assign("q", Name("kw"))>>),
              FunctionDefArgs("p", <<"x", "o">>, <<Num(5)>>, "", "",
                  <<Assign("m", Name("x")), Assign("n", Name("o"))>>) >>)

\* the names of the keyword arguments of a generated call, and their values
KwNames == <<"x", "y", "z", "o", "w">>
KwValue(name) == 20 + (CHOOSE i \in 1..Len(KwNames) : KwNames[i] = name)

\* the keyword lists of a call: Python allows no name twice
KwLists ==
    {kws \in UNION {[1..n -> 1..Len(KwNames)] : n \in 0..MaxKw} :
        \A i, j \in DOMAIN kws : i # j => kws[i] # kws[j]}

\* fn(11, ..., 10 + npos, name=KwValue(name), ...)
ArgsCallScript(fn, npos, kws) ==
    Module(<<Expr(CallKw(Name(fn), [i \in 1..npos |-> Num(10 + i)],
                         [i \in 1..Len(kws) |->
                             Keyword(KwNames[kws[i]], Num(KwValue(KwNames[kws[i]])))]))>>)

\* the scripts of a session that looks at what eval() gives its caller
SurfaceScript ==
    << Module(<<Expr(NameConstant(BoolVal(TRUE)))>>),
       Module(<<Assign("x", Num(42)), Expr(Name("x"))>>),
       Module(<<Assign("x", Num(1))>>),
       Module(<<Assign("n", Num(6)), AssertStmt(Compare(Name("n"), "Eq", Num(6)))>>),
       Module(<<Assign("n", Num(6)), AssertStmt(Compare(Name("n"), "Eq", Num(7)))>>),
       Module(<<Assign("f", Lambda)>>),
       Module(<<Expr(Name("und"))>>),
       Module(<<Return(Num(5))>>),
       Module(<<Assign("eval", Num(2))>>),
       Module(<<For("eval", TupleNode(<<Num(1), Num(2)>>), <<Assign("m", Num(1))>>, <<>>)>>),
       Module(<<Expr(ListComp(Name("eval"), "eval", TupleNode(<<Num(1), Num(2)>>)))>>),
       Module(<<Expr(ListComp(Name("i"), "i", TupleNode(<<Num(1), Num(2)>>)))>>),
       Text(<<Assign("x", Num(1)), Assign("y", Num(1)), Garbage>>),
       Text(<<Assign("x", Num(1)), Garbage, Assign("y", Num(1))>>),
       Text(<<Garbage>>),
       Text(<<Assign("x", Num(1)), Assign("y", Num(1))>>),
       Module(<<Try(<<Assign("f", Lambda)>>,
                    <<ExceptHandler("", "", <<Assign("h", Num(1))>>)>>, <<>>, <<>>)>>),
       Module(<<FunctionDef("foo", <<>>, <<Return(Num(42))>>),
                Expr(Call(Name("foo"), <<>>))>>),
       Module(<<Assign("x", Num(1)),
                If(Name("x"), <<Assign("y", Num(2))>>, <<>>)>>),
       Module(<<Expr(Lambda)>>) >>

\* the exponents and the shifts of the scripts 10 ** e and 1 << k
Exponents == (MAX_EXPONENT - 1)..(MAX_EXPONENT + 2)
Shifts == (MAX_SHIFT - 1)..(MAX_SHIFT + 2)
PowScript(e) == Module(<<Expr(BinOp(Num(10), "Pow", Num(e)))>>)
ShiftScript(k) == Module(<<Expr(BinOp(Num(1), "LShift", Num(k)))>>)

\* the objects of the host of an "attr" session: an instance o with the
\* attribute a = 1, the list l = [1, 2], the integer x = 1
HostHeap ==
    << [items |-> <<>>, attrs |-> [n \in {"a"} |-> IntVal(1)]],
       [items |-> <<IntVal(1), IntVal(2)>>, attrs |-> [n \in {} |-> None]] >>
HostSymtable ==
    [n \in {"o", "l", "x"} |->
        IF n = "o" THEN ObjectVal(1) ELSE IF n = "l" THEN ListVal(2) ELSE IntVal(1)]

\* the targets of the assignments of an "attr" session, in the context ctx:
\* x, u (not bound), l[0], l[5], o.a, o.b, x.a, x[0]
Targets(ctx) ==
    << [t |-> "name", id |-> "x", ctx |-> ctx],
       [t |-> "name", id |-> "u", ctx |-> ctx],
       Subscript(Name("l"), Index(Num(0)), ctx),
       Subscript(Name("l"), Index(Num(5)), ctx),
       Attribute(Name("o"), "a", ctx),
       Attribute(Name("o"), "b", ctx),
       Attribute(Name("x"), "a", ctx),
       Subscript(Name("x"), Index(Num(0)), ctx) >>

\* `target += 1`, and `target = target + 1` as Python parses it
AugScript(i) == Module(<<AugAssign(Targets("Store")[i], "Add", Num(1))>>)
PlainScript(i) ==
    Module(<<AssignTo(Targets("Store")[i], BinOp(Targets("Load")[i], "Add", Num(1)))>>)

\* `v.attr` and `y = v.attr`
AttrNames == {"a", "b", "__class__", "__dict__", "__subclasses__"}
ReadScript(v, attr) == Module(<<Expr(Attribute(Name(v), attr, "Load"))>>)
BindScript(v, attr) == Module(<<Assign("y", Attribute(Name(v), attr, "Load"))>>)

\* `v.attr = 1` and `del v.attr`
WriteScript(v, attr) == Module(<<AssignTo(Attribute(Name(v), attr, "Store"), Num(1))>>)
DelScript(v, attr) == Module(<<Delete(<<Attribute(Name(v), attr, "Del")>>)>>)

\* `del x`, `del u`, `del x, o.a`, `del l[0]`, `del o.a.b`
DelOther ==
    << Module(<<Delete(<<[t |-> "name", id |-> "x", ctx |-> "Del"]>>)>>),
       Module(<<Delete(<<[t |-> "name", id |-> "u", ctx |-> "Del"]>>)>>),
       Module(<<Delete(<<[t |-> "name", id |-> "x", ctx |-> "Del"],
                         Attribute(Name("o"), "a", "Del")>>)>>),
       Module(<<Delete(<<Subscript(Name("l"), Index(Num(0)), "Del")>>)>>),
       Module(<<Delete(<<Attribute(Attribute(Name("o"), "a", "Load"), "b", "Del")>>)>>) >>

\* a "slice" session: the host has built Interpreter(symtable={'a': [1, 2, 3, 4]})
SliceHeap0 == << [items |-> <<IntVal(1), IntVal(2), IntVal(3), IntVal(4)>>,
                  attrs |-> [n \in {} |-> None]] >>
SliceSymtable == [n \in {"a"} |-> ListVal(1)]

\* the bounds and the steps written in a slice: one left out, or a number
SliceLowers == {NoneNode, Num(0), Num(1)}
SliceUppers == {NoneNode, Num(2), Num(3), Num(4)}
SliceSteps == {NoneNode, Num(1), Num(2)}

\* the m values assigned: (8,), (8, 9)
SliceRhs(m) == TupleNode([j \in 1..m |-> Num(7 + j)])

\* `a[lo:hi:step]` and `a[lo:hi:step] = (8, ...)`
SliceRead(lo, hi, step) ==
    Module(<<Expr(Subscript(Name("a"), Slice(lo, hi, step), "Load"))>>)
SliceWrite(lo, hi, step, m) ==
    Module(<<AssignTo(Subscript(Name("a"), Slice(lo, hi, step), "Store"), SliceRhs(m))>>)
SliceScripts ==
    {SliceRead(lo, hi, step) : lo \in SliceLowers, hi \in SliceUppers, step \in SliceSteps}
    \cup UNION {{SliceWrite(lo, hi, step, m) : lo \in SliceLowers, hi \in SliceUppers,
                                               step \in SliceSteps} : m \in 1..2}

\* a "trace" session, over the host's o, l and x: `x`, `l`, `o`, `-x`,
\* `not x`, `x + 1`, `x < 2`, `x and 1`, `x or 2`, `y = 1`, `y = x`,
\* `l[0] = 5`, `o.a = 5`, `print(x)`, `-x + 1 < 2`
TraceScripts ==
    << Module(<<Expr(Name("x"))>>),
       Module(<<Expr(Name("l"))>>),
       Module(<<Expr(Name("o"))>>),
       Module(<<Expr(UnaryOp("USub", Name("x")))>>),
       Module(<<Expr(UnaryOp("Not", Name("x")))>>),
       Module(<<Expr(BinOp(Name("x"), "Add", Num(1)))>>),
       Module(<<Expr(Compare(Name("x"), "Lt", Num(2)))>>),
       Module(<<Expr(BoolOp("And", <<Name("x"), Num(1)>>))>>),
       Module(<<Expr(BoolOp("Or", <<Name("x"), Num(2)>>))>>),
       Module(<<Assign("y", Num(1))>>),
       Module(<<Assign("y", Name("x"))>>),
       Module(<<AssignTo(Subscript(Name("l"), Index(Num(0)), "Store"), Num(5))>>),
       Module(<<AssignTo(Attribute(Name("o"), "a", "Store"), Num(5))>>),
       Module(<<Expr(Call(Name("print"), <<Name("x")>>))>>),
       Module(<<Expr(Compare(BinOp(UnaryOp("USub", Name("x")), "Add", Num(1)), "Lt", Num(2)))>>) >>

\* the handler lists of a try statement in a loop body: each catches a
\* NameError and completes
CaughtHandlers ==
    << <<ExceptHandler("", "", <<Assign("h", Name("i"))>>)>>,
       <<ExceptHandler("", "err", <<Assign("h", Name("i"))>>)>>,
       <<ExceptHandler("NameError", "", <<Pass>>)>> >>

\* try: <body> except ...: ...  and, after it, m = i
CaughtBody(code, h) ==
    << Try(Block(TryStmt, code), CaughtHandlers[h], <<>>, <<>>), Assign("m", Name("i")) >>

\* for i in (1, 2): try ...; m = i  [else: z = 1], and the same loop as
\* i = 0; while i < 2: i = i + 1; ...
CaughtScript(loop, code, h, e) ==
    IF loop = "for"
    THEN Module(<< For("i", TupleNode(<<Num(1), Num(2)>>), CaughtBody(code, h),
                       IF e = 1 THEN <<Assign("z", Num(1))>> ELSE <<>>) >>)
    ELSE Module(<< Assign("i", Num(0)),
                   While(Compare(Name("i"), "Lt", Num(2)),
                         <<Assign("i", BinOp(Name("i"), "Add", Num(1)))>> \o CaughtBody(code, h),
                         IF e = 1 THEN <<Assign("z", Num(1))>> ELSE <<>>) >>)

CaughtScripts ==
    {CaughtScript(loop, code, h, e) :
        loop \in {"for", "while"}, code \in Codes(Len(TryStmt), MaxBody),
        h \in DOMAIN CaughtHandlers, e \in 0..1}

Families == {"proc", "ret", "try", "budget", "loop", "unpack", "args", "surface"}

\* the scripts of a session of the family, at its n-th eval() call
Scripts(fam, n) ==
    CASE fam = "proc" /\ n = 0 -> {ProcDefScript(c) : c \in Codes(Len(ProcStmt), MaxBody)}
      [] fam = "proc" /\ n > 0 -> {ProcCallScript(a) : a \in {0, 3}}
      [] fam = "ret" /\ n = 0 -> {RetDefScript(c) : c \in Codes(Len(RetStmt), MaxBody)}
      [] fam = "ret" /\ n > 0 -> {ProcCallScript(a) : a \in {0, 3}}
      [] fam = "try" /\ n = 0 -> TryScripts
      [] fam = "try" /\ n > 0 -> {}
      [] fam = "budget" -> {BudgetScript[i] : i \in 1..Len(BudgetScript)}
      [] fam = "loop" /\ n = 0 ->
            {ForScript(c, e) : c \in Codes(Len(LoopStmt), MaxBody), e \in 0..1}
            \cup {WhileScript(c, e) : c \in Codes(Len(LoopStmt), MaxBody), e \in 0..1}
      [] fam = "loop" /\ n > 0 -> {}
      [] fam = "caught" /\ n = 0 -> CaughtScripts
      [] fam = "caught" /\ n > 0 ->
            {CaughtScript(loop, <<2>>, 1, 1) : loop \in {"for", "while"}}
      [] fam = "unpack" /\ n = 0 ->
            {UnpackScript(c, t) : c \in Codes(Len(UnpackStmt), MaxBody), t \in 0..1}
      [] fam = "unpack" /\ n > 0 -> {}
      [] fam = "args" /\ n = 0 -> {ArgsDefScript}
      [] fam = "args" /\ n = 1 ->
            {ArgsCallScript(fn, npos, kws) :
                fn \in {"f", "v", "k", "p"}, npos \in 0..MaxPos, kws \in KwLists}
      [] fam = "args" /\ n > 1 -> {}
      [] fam = "surface" /\ n < 2 ->
            {SurfaceScript[i] : i \in 1..Len(SurfaceScript)}
            \cup {PowScript(e) : e \in Exponents} \cup {ShiftScript(k) : k \in Shifts}
      [] fam = "surface" /\ n >= 2 -> {}
      [] fam = "attr" /\ n < 2 ->
            {AugScript(i) : i \in 1..Len(Targets("Store"))}
            \cup {PlainScript(i) : i \in 1..Len(Targets("Store"))}
            \cup {ReadScript(v, attr) : v \in {"o", "l", "x", "und"}, attr \in AttrNames}
            \cup {BindScript(v, attr) : v \in {"o", "x"}, attr \in AttrNames}
            \cup {WriteScript(v, attr) : v \in {"o", "l", "x"}, attr \in AttrNames}
            \cup {DelScript(v, attr) : v \in {"o", "l", "x"}, attr \in AttrNames}
            \cup {DelOther[i] : i \in DOMAIN DelOther}
      [] fam = "attr" /\ n >= 2 -> {}
      [] fam = "slice" /\ n < 2 -> SliceScripts
      [] fam = "slice" /\ n >= 2 -> {}
      [] fam = "trace" /\ n < 2 -> {TraceScripts[i] : i \in DOMAIN TraceScripts}
      [] fam = "trace" /\ n >= 2 -> {}

\* the run() calls at which the clock may run out, at the n-th eval() call
Deadlines(fam, n) ==
    CASE fam \in {"proc", "ret"} /\ n = 0 -> {0}
      [] fam \in {"loop", "unpack", "args", "surface", "attr", "caught", "slice", "trace"} -> {0}
      [] OTHER -> 0..MaxDeadline

\* the default of eval()'s parameter show_errors; Interpreter.__call__(expr)
\* is eval(expr) with the defaults
DefaultShowErrors == TRUE

\* the values of show_errors that the host gives eval(): the default, and
\* in a "surface" session also False
ShowErrors(fam) == IF fam = "surface" THEN {DefaultShowErrors, FALSE} ELSE {DefaultShowErrors}

\* the host has built no Frame
NoFrame == [symbols |-> EmptyDict]

\* no eval() call is being stepped through
Idle == [pc |-> "idle", k |-> 0, i |-> 0, out |-> None]

Init ==
    /\ ctl = Idle
    /\ interp = NewInterpreter
    /\ outcome = [kind |-> "none", val |-> None, exc |-> "none"]
    /\ last = [script |-> Module(<<>>), pre |-> NewInterpreter, show_errors |-> TRUE]
    /\ nevals = 0
    /\ family \in Families
    /\ instances = <<>>
    /\ dicts = <<>>
    /\ frame = NoFrame

\* the host calls interp.eval(script, show_errors)
Eval(script, show_errors, deadline) ==
    /\ nevals < MaxEvals
    /\ LET e == eval(interp, script, show_errors, deadline)
       IN  /\ interp' = e.st
           /\ outcome' = e.out
    /\ last' = [script |-> script, pre |-> interp, show_errors |-> show_errors]
    /\ nevals' = nevals + 1
    /\ UNCHANGED <<family, ctl, instances, dicts, frame>>

\* the host sets interp.debugging, before it evaluates anything
SetDebugging(b) ==
    /\ nevals = 0
    /\ interp.debugging # b
    /\ interp' = [interp EXCEPT !.debugging = b]
    /\ UNCHANGED <<outcome, last, nevals, family, ctl, instances, dicts, frame>>

Next ==
    \/ \E script \in Scripts(family, nevals), deadline \in Deadlines(family, nevals),
          show_errors \in ShowErrors(family) :
           Eval(script, show_errors, deadline)
    \/ \E b \in BOOLEAN : SetDebugging(b)

Spec == Init /\ [][Next]_vars

InitProc == Init /\ family = "proc"

SpecProc == InitProc /\ [][Next]_vars

InitRet == Init /\ family = "ret"

SpecRet == InitRet /\ [][Next]_vars

InitTry == Init /\ family = "try"

SpecTry == InitTry /\ [][Next]_vars

InitBudget == Init /\ family = "budget"

SpecBudget == InitBudget /\ [][Next]_vars

InitLoop == Init /\ family = "loop"

SpecLoop == InitLoop /\ [][Next]_vars

InitUnpack == Init /\ family = "unpack"

SpecUnpack == InitUnpack /\ [][Next]_vars

InitArgs == Init /\ family = "args"

SpecArgs == InitArgs /\ [][Next]_vars

InitSurface == Init /\ family = "surface"

\* Interpreter(symtable=symtable): the instance uses the dict of the host
InterpreterOver(symtable, heap) ==
    [NewInterpreter EXCEPT !.symtable = Update(symtable, @), !.heap = heap]

\* a host that has built Interpreter(symtable={'o': o, 'l': l, 'x': 1})
InitAttr ==
    /\ interp = InterpreterOver(HostSymtable, HostHeap)
    /\ outcome = [kind |-> "none", val |-> None, exc |-> "none"]
    /\ last = [script |-> Module(<<>>), pre |-> interp, show_errors |-> TRUE]
    /\ nevals = 0
    /\ ctl = Idle
    /\ family = "attr"
    /\ instances = <<>>
    /\ dicts = <<>>
    /\ frame = NoFrame

SpecAttr == InitAttr /\ [][Next]_vars

\* a host that has built Interpreter(symtable={'a': [1, 2, 3, 4]})
InitSlice ==
    /\ interp = InterpreterOver(SliceSymtable, SliceHeap0)
    /\ outcome = [kind |-> "none", val |-> None, exc |-> "none"]
    /\ last = [script |-> Module(<<>>), pre |-> interp, show_errors |-> TRUE]
    /\ nevals = 0
    /\ ctl = Idle
    /\ family = "slice"
    /\ instances = <<>>
    /\ dicts = <<>>
    /\ frame = NoFrame

SpecSlice == InitSlice /\ [][Next]_vars

\* Interpreter.set_trace
set_trace(st, on_off) == [st EXCEPT !.trace_enabled = on_off]

\* the host calls interp.set_trace(on_off)
SetTrace(on_off) ==
    /\ interp.trace_enabled # on_off
    /\ interp' = set_trace(interp, on_off)
    /\ UNCHANGED <<outcome, last, nevals, family, ctl, instances, dicts, frame>>

\* a host that has built Interpreter(symtable={'o': o, 'l': l, 'x': 1})
InitTrace ==
    /\ interp = InterpreterOver(HostSymtable, HostHeap)
    /\ outcome = [kind |-> "none", val |-> None, exc |-> "none"]
    /\ last = [script |-> Module(<<>>), pre |-> interp, show_errors |-> TRUE]
    /\ nevals = 0
    /\ ctl = Idle
    /\ family = "trace"
    /\ instances = <<>>
    /\ dicts = <<>>
    /\ frame = NoFrame

NextTrace ==
    \/ \E script \in Scripts(family, nevals) :
           Eval(script, DefaultShowErrors, 0)
    \/ \E on_off \in BOOLEAN : SetTrace(on_off)

SpecTrace == InitTrace /\ [][NextTrace]_vars

SpecSurface == InitSurface /\ [][Next]_vars

\* sessions that run a try statement in a loop body
InitCaught ==
    /\ interp = NewInterpreter
    /\ outcome = [kind |-> "none", val |-> None, exc |-> "none"]
    /\ last = [script |-> Module(<<>>), pre |-> NewInterpreter, show_errors |-> TRUE]
    /\ nevals = 0
    /\ ctl = Idle
    /\ family = "caught"
    /\ instances = <<>>
    /\ dicts = <<>>
    /\ frame = NoFrame

SpecCaught == InitCaught /\ [][Next]_vars

(***************************************************************************)
(* A host that builds several instances.  A field of an instance that      *)
(* holds a mutable object holds a reference to it: instances[i].symtable   *)
(* is the position in dicts of the dict that is the namespace of the       *)
(* instance.                                                               *)
(***************************************************************************)
\* Interpreter(): the parameter symtable is left at its default, None
NoDict == 0

\* a constructor whose `{}` is made once, when the def statement runs
Interpreter_init_DefaultDict(symtable, ds) ==
    [self |-> [NewInterpreter EXCEPT !.symtable = 1],
     dicts |-> [(IF ds = <<>> THEN <<EmptyDict>> ELSE ds)
                   EXCEPT ![1] = Update(@, NewInterpreter.symtable)]]

\* self.symtable = symtable, and the writes of the builtins into it
InitSymtable(self, symtable, ds) ==
    [self |-> [self EXCEPT !.symtable = symtable],
     dicts |-> [ds EXCEPT ![symtable] = Update(@, self.symtable)]]

\* Interpreter.__init__(symtable): ds are the dicts there are, and
\* `symtable = {}` adds a new one to them
Interpreter_init(symtable, ds) ==
    IF symtable = NoDict
    THEN InitSymtable(NewInterpreter, Len(ds) + 1, Append(ds, EmptyDict))
    ELSE InitSymtable(NewInterpreter, symtable, ds)

\* the constructor calls of the host, in their order:
\*     a = Interpreter(); b = Interpreter(); c = Interpreter(symtable=a.symtable)
\* BuiltOver[k] is the instance whose namespace the k-th call is given, or 0
BuiltOver == <<0, 0, 1>>

\* the argument symtable of the k-th call; done are the instances there are
SymtableArg(k, done) == IF BuiltOver[k] = 0 THEN NoDict ELSE done[BuiltOver[k]].symtable

RECURSIVE Construct(_, _, _)
\* the instance that a constructor call made joins the others
ConstructNext(k, done, made) == Construct(k + 1, Append(done, made.self), made.dicts)

\* the constructor calls from the k-th on
Construct(k, done, ds) ==
    IF k > Len(BuiltOver) THEN [instances |-> done, dicts |-> ds]
    ELSE ConstructNext(k, done, Interpreter_init(SymtableArg(k, done), ds))

\* the scripts the host evaluates on its instances
PairScript ==
    << Module(<<Assign("x", Num(1))>>),
       Module(<<Assign("x", Num(2))>>),
       Module(<<Assign("y", Name("x"))>>),
       Module(<<Expr(Name("und"))>>),
       Module(<<Return(Num(5))>>),
       Module(<<Assign("x", Num(1)), Assign("y", Num(2)), Expr(Name("y"))>>) >>

\* instance i as its methods see it: self, with the namespace it refers to
Self(i) == [instances[i] EXCEPT !.symtable = dicts[instances[i].symtable]]

\* what the call instances[i].eval(...) has written: the fields of the
\* instance, and the items of the dict that self.symtable refers to
EvalOnEnd(i, script, show_errors, e) ==
    /\ instances' = [instances EXCEPT ![i] = [e.st EXCEPT !.symtable = instances[i].symtable]]
    /\ dicts' = [dicts EXCEPT ![instances[i].symtable] = e.st.symtable]
    /\ interp' = e.st
    /\ outcome' = e.out
    /\ last' = [script |-> script, pre |-> Self(i), show_errors |-> show_errors, instance |-> i]

\* the host calls instances[i].eval(script, show_errors)
EvalOn(i, script, show_errors) ==
    /\ nevals < MaxEvals
    /\ EvalOnEnd(i, script, show_errors, eval(Self(i), script, show_errors, 0))
    /\ nevals' = nevals + 1
    /\ UNCHANGED <<family, ctl, frame>>

InitPair ==
    /\ instances = Construct(1, <<>>, <<>>).instances
    /\ dicts = Construct(1, <<>>, <<>>).dicts
    /\ interp = NewInterpreter
    /\ outcome = [kind |-> "none", val |-> None, exc |-> "none"]
    /\ last = [script |-> Module(<<>>), pre |-> NewInterpreter, show_errors |-> TRUE,
               instance |-> 0]
    /\ nevals = 0
    /\ ctl = Idle
    /\ family = "pair"
    /\ frame = NoFrame

NextPair ==
    \E i \in DOMAIN instances, k \in DOMAIN PairScript, show_errors \in BOOLEAN :
        EvalOn(i, PairScript[k], show_errors)

SpecPair == InitPair /\ [][NextPair]_vars

(***************************************************************************)
(* Frame (frame.py): a table of Symbol objects by name.  A Symbol is kept  *)
(* as its fields value, modified and secret.                               *)
(***************************************************************************)
\* Symbol.__init__(name, value, secret)
Symbol(value, secret) == [value |-> value, modified |-> TRUE, secret |-> secret]

\* Symbol.set(value, secret)
Symbol_set(sym, value, secret) ==
    [value |-> value, modified |-> value # sym.value, secret |-> secret]

\* Frame.__init__(name, initial_symbols)
Frame_init(initial_symbols) ==
    [x \in DOMAIN initial_symbols |-> Symbol(initial_symbols[x], FALSE)]

\* Frame.set_symbol(name, val, secret): the symbols after the call
set_symbol(symbols, name, val, secret) ==
    IF name \in DOMAIN symbols
    THEN [symbols EXCEPT ![name] = Symbol_set(@, val, secret)]
    ELSE SetItem(symbols, name, Symbol(val, secret))

\* Frame.is_modified(name)
is_modified(symbols, name) ==
    IF name \in DOMAIN symbols THEN symbols[name].modified ELSE TRUE

\* Frame.set_modified(name)
set_modified(symbols, name) ==
    IF name \in DOMAIN symbols
    THEN [symbols EXCEPT ![name].modified = TRUE]
    ELSE SetItem(symbols, name, Symbol(None, FALSE))

\* Frame.reset_modified(name)
reset_modified(symbols, name) ==
    IF name \in DOMAIN symbols
    THEN [symbols EXCEPT ![name].modified = FALSE]
    ELSE SetItem(symbols, name, Symbol(None, FALSE))

\* Frame.remove_symbol(name): self.__symbols.pop(name)
remove_symbol(symbols, name) == Pop(symbols, name)

\* the names and the values the host gives the methods of its Frame
FrameNames == {"a", "b"}
FrameValues == {None, IntVal(1), IntVal(2)}
InitialSymbols == {EmptyDict, [x \in {"a"} |-> IntVal(1)]}

\* the host has called a method of the Frame: the symbols before and after
\* the call, the arguments, and what the call returned or raised
Called(op, name, val, symbols, ret, exc) ==
    frame' = [symbols |-> symbols, pre |-> frame.symbols, op |-> op, name |-> name,
              val |-> val, ret |-> ret, exc |-> exc]

FrameUnchanged == UNCHANGED <<interp, outcome, last, nevals, family, ctl, instances, dicts>>

\* the set_symbol call, once the symbols after it are known
SetSymbolEnd(name, val, symbols) ==
    Called("set_symbol", name, val, symbols, symbols[name].modified, "none")

FrameSetSymbol(name, val, secret) ==
    /\ SetSymbolEnd(name, val, set_symbol(frame.symbols, name, val, secret))
    /\ FrameUnchanged

FrameSetModified(name) ==
    /\ Called("set_modified", name, None, set_modified(frame.symbols, name), None, "none")
    /\ FrameUnchanged

FrameResetModified(name) ==
    /\ Called("reset_modified", name, None, reset_modified(frame.symbols, name), None, "none")
    /\ FrameUnchanged

\* pop(name) of a name that is no symbol raises KeyError
FrameRemoveSymbol(name) ==
    /\ IF name \in DOMAIN frame.symbols
       THEN Called("remove_symbol", name, None, remove_symbol(frame.symbols, name), None, "none")
       ELSE Called("remove_symbol", name, None, frame.symbols, None, "KeyError")
    /\ FrameUnchanged

InitFrame ==
    /\ \E initial_symbols \in InitialSymbols :
           frame = [symbols |-> Frame_init(initial_symbols), pre |-> EmptyDict,
                    op |-> "__init__", name |-> "", val |-> None, ret |-> None,
                    exc |-> "none"]
    /\ interp = NewInterpreter
    /\ outcome = [kind |-> "none", val |-> None, exc |-> "none"]
    /\ last = [script |-> Module(<<>>), pre |-> NewInterpreter, show_errors |-> TRUE]
    /\ nevals = 0
    /\ ctl = Idle
    /\ family = "frame"
    /\ instances = <<>>
    /\ dicts = <<>>

NextFrame ==
    \/ \E name \in FrameNames, val \in FrameValues, secret \in BOOLEAN :
           FrameSetSymbol(name, val, secret)
    \/ \E name \in FrameNames : FrameSetModified(name)
    \/ \E name \in FrameNames : FrameResetModified(name)
    \/ \E name \in FrameNames : FrameRemoveSymbol(name)

SpecFrame == InitFrame /\ [][NextFrame]_vars

(***************************************************************************)
(* One eval() call, step by step.  A step is one run() call that eval(),   *)
(* on_module or on_while makes; ctl is the position of the call: pc names  *)
(* the statement being executed, k is the index into the module body, i    *)
(* the index into the loop body or the else block, out is on_module's out. *)
(* The statements inside a loop body are run by Run.                       *)
(***************************************************************************)
\* the scripts stepped through: `while True: pass`, `while True: x = 1`,
\* `x = 1`, `while None: pass / else: z = 1` and `while True: break`
WhileScripts ==
    { BudgetScript[1], BudgetScript[2], BudgetScript[5],
      Module(<<While(NameConstant(None), <<Pass>>, <<Assign("z", Num(1))>>)>>),
      Module(<<While(NameConstant(BoolVal(TRUE)), <<Break>>, <<>>)>>) }

\* the except clause of run(), with_raise=True
RunExcept(r) == raise_exception(r.st, "none", r.exc)

\* the except clause of eval(), show_errors=True: the message is printed
EvalExcept(st) ==
    /\ interp' = st
    /\ outcome' = [kind |-> "printed", val |-> None, exc |-> "none"]
    /\ ctl' = [ctl EXCEPT !.pc = "done"]

\* an exception leaves on_while: through run(While) and run(Module) to eval()
WhileRaises(r) == EvalExcept(RunExcept(RunExcept(r)).st)

\* eval() up to its call of self.run(node)
WEvalBegin(script, deadline) ==
    /\ ctl.pc = "idle"
    /\ nevals < MaxEvals
    /\ interp' = [interp EXCEPT !.error = <<>>, !.trace = <<>>, !.cycles = 0,
                                !.ticks = 0, !.deadline = deadline]
    /\ outcome' = [kind |-> "running", val |-> None, exc |-> "none"]
    /\ last' = [script |-> script, pre |-> interp, show_errors |-> TRUE]
    /\ nevals' = nevals + 1
    /\ ctl' = [pc |-> "run_module", k |-> 1, i |-> 1, out |-> None]
    /\ UNCHANGED <<family, instances, dicts, frame>>

\* run(Module) up to the call of on_module
WRunModule ==
    /\ ctl.pc = "run_module"
    /\ LET c == RunChecks(interp)
       IN  IF c.exc # "none" THEN EvalExcept(c.st)
           ELSE /\ interp' = c.st
                /\ ctl' = [ctl EXCEPT !.pc = "module"]
                /\ UNCHANGED outcome
    /\ UNCHANGED <<last, nevals, family, instances, dicts, frame>>

\* on_module: out = self.run(tnode) ended as r
WModuleRan(r) ==
    IF r.exc # "none" THEN EvalExcept(RunExcept(r).st)
    ELSE /\ interp' = r.st
         /\ ctl' = [ctl EXCEPT !.k = @ + 1, !.out = r.val]
         /\ UNCHANGED outcome

\* on_module: out = self.run(tnode) for the next statement, up to the call
\* of on_while when it is a while statement; or the return of eval()
WModuleStmt ==
    /\ ctl.pc = "module"
    /\ LET body == last.script.body
       IN  IF ctl.k > Len(body)
           THEN /\ outcome' = [kind |-> "returned", val |-> ctl.out, exc |-> "none"]
                /\ ctl' = [ctl EXCEPT !.pc = "done"]
                /\ UNCHANGED interp
           ELSE IF body[ctl.k].t # "while"
           THEN WModuleRan(Run(body[ctl.k], TRUE, interp))
           ELSE LET c == RunChecks(interp)
                IN  IF c.exc # "none" THEN EvalExcept(RunExcept(c).st)
                    ELSE /\ interp' = c.st
                         /\ ctl' = IF c.st.error # <<>>
                                   THEN [ctl EXCEPT !.k = @ + 1, !.out = None]
                                   ELSE [ctl EXCEPT !.pc = "while_test"]
                         /\ UNCHANGED outcome
    /\ UNCHANGED <<last, nevals, family, instances, dicts, frame>>

\* on_while: self.run(node.test) ended as c
WWhileTested(c) ==
    IF c.exc # "none" THEN WhileRaises(c)
    ELSE /\ interp' = IF Truthy(c.val) THEN [c.st EXCEPT !.interrupt = "none"]
                      ELSE c.st
         /\ ctl' = [ctl EXCEPT !.pc = IF Truthy(c.val) THEN "while_body"
                                      ELSE "while_else",
                               !.i = 1]
         /\ UNCHANGED outcome

\* on_while: while self.run(node.test): self._interrupt = None
WWhileTest ==
    /\ ctl.pc = "while_test"
    /\ WWhileTested(Run(last.script.body[ctl.k].test, TRUE, interp))
    /\ UNCHANGED <<last, nevals, family, instances, dicts, frame>>

\* on_while: self.run(tnode) ended as r for a statement of the body
WWhileBodyRan(node, r) ==
    IF r.exc # "none" THEN WhileRaises(r)
    ELSE /\ interp' = r.st
         /\ ctl' = IF r.st.interrupt = "break"
                   THEN [ctl EXCEPT !.pc = "while_exit"]
                   ELSE IF r.st.interrupt # "none" \/ ctl.i = Len(node.body)
                   THEN [ctl EXCEPT !.pc = "while_test"]
                   ELSE [ctl EXCEPT !.i = @ + 1]
         /\ UNCHANGED outcome

\* on_while: self.run(tnode) ended as r for a statement of the else block
WWhileElseRan(r) ==
    IF r.exc # "none" THEN WhileRaises(r)
    ELSE /\ interp' = r.st
         /\ ctl' = [ctl EXCEPT !.i = @ + 1]
         /\ UNCHANGED outcome

\* on_while: self.run(tnode) for the next statement of the body, and the
\* tests of self._interrupt after it
WWhileBody ==
    /\ ctl.pc = "while_body"
    /\ LET node == last.script.body[ctl.k]
       IN  IF ctl.i > Len(node.body)
           THEN /\ ctl' = [ctl EXCEPT !.pc = "while_test"]
                /\ UNCHANGED <<interp, outcome>>
           ELSE WWhileBodyRan(node, Run(node.body[ctl.i], TRUE, interp))
    /\ UNCHANGED <<last, nevals, family, instances, dicts, frame>>

\* on_while: self.run(tnode) for the next statement of the else block
WWhileElse ==
    /\ ctl.pc = "while_else"
    /\ LET node == last.script.body[ctl.k]
       IN  IF ctl.i > Len(node.orelse)
           THEN /\ ctl' = [ctl EXCEPT !.pc = "while_exit"]
                /\ UNCHANGED <<interp, outcome>>
           ELSE WWhileElseRan(Run(node.orelse[ctl.i], TRUE, interp))
    /\ UNCHANGED <<last, nevals, family, instances, dicts, frame>>

\* on_while: self._interrupt = None, and the return to on_module
WWhileExit ==
    /\ ctl.pc = "while_exit"
    /\ interp' = [interp EXCEPT !.interrupt = "none"]
    /\ ctl' = [ctl EXCEPT !.pc = "module", !.k = @ + 1, !.out = None]
    /\ UNCHANGED <<outcome, last, nevals, family, instances, dicts, frame>>

InitWhile ==
    /\ ctl = Idle
    /\ interp = NewInterpreter
    /\ outcome = [kind |-> "none", val |-> None, exc |-> "none"]
    /\ last = [script |-> Module(<<>>), pre |-> NewInterpreter, show_errors |-> TRUE]
    /\ nevals = 0
    /\ family = "while"
    /\ instances = <<>>
    /\ dicts = <<>>
    /\ frame = NoFrame

\* the steps of the interpreter, once eval() is called
InterpreterStep ==
    \/ WRunModule
    \/ WModuleStmt
    \/ WWhileTest
    \/ WWhileBody
    \/ WWhileElse
    \/ WWhileExit

NextWhile ==
    \/ \E script \in WhileScripts, deadline \in 0..MaxDeadline :
           WEvalBegin(script, deadline)
    \/ \E b \in BOOLEAN : SetDebugging(b)
    \/ InterpreterStep

\* the interpreter is a sequential program: it takes its next step
SpecWhile == InitWhile /\ [][NextWhile]_vars /\ WF_vars(InterpreterStep)

(***************************************************************************)
(* Properties.                                                             *)
(***************************************************************************)
\* the lines of the trace that a statement `id = ...` appended
AssignLines(id) == {i \in DOMAIN interp.trace :
                        interp.trace[i].ev = "assign" /\ interp.trace[i].id = id}

\* the last eval() call of a "proc" session was the call f(a)
ProcCalled == family = "proc" /\ nevals >= 2

\* C1: whatever way a procedure call ends (normal end, early return, a body
\* statement failing), the namespace after the call is the namespace before it.
C1_RestoredOnEveryRoute ==
    ProcCalled => interp.symtable = last.pre.symtable

\* C2: after a procedure call that ends normally, the namespace holds the
\* bindings it held before the call: parameters and locals are gone, shadowed
\* and reassigned names have their earlier values.
C2_NormalCallRestores ==
    (ProcCalled /\ outcome.kind = "returned") =>
        /\ interp.symtable = last.pre.symtable
        /\ \A id \in {"x", "y", "g", "i"} :
              /\ id \in DOMAIN interp.symtable <=> id \in DOMAIN last.pre.symtable
              /\ id \in DOMAIN interp.symtable =>
                    interp.symtable[id] = last.pre.symtable[id]

\* a call f(3) whose body assigned the local y and the caller's g and returned
C2_Witness ==
    /\ ProcCalled /\ outcome.kind = "returned" /\ outcome.val = IntVal(3)
    /\ AssignLines("y") # {} /\ AssignLines("g") # {}
    /\ "y" \notin DOMAIN interp.symtable
    /\ interp.symtable["g"] = IntVal(1)
    /\ interp.symtable["x"] = IntVal(2)

\* a resource check of run() failed during the last evaluation
StepBudgetFailed == interp.cycles > MAX_CYCLES
TimeFailed == ~interp.debugging /\ interp.deadline # 0 /\ interp.ticks = interp.deadline
ResourceFailed == StepBudgetFailed \/ TimeFailed

\* the last eval() call of a "try" session: its try statement
TryEvaluated == family = "try" /\ nevals >= 1
TryNode == last.script.body[1]

\* the number of statements of the try body that are run: all of them, or
\* those up to the first one that fails
TryBodyRun ==
    LET failing == {i \in 1..Len(TryNode.body) : TryNode.body[i] = TryStmt[2]}
    IN  IF failing = {} THEN Len(TryNode.body)
        ELSE CHOOSE i \in failing : \A j \in failing : i <= j

\* the clock ran out at a run() call made for a statement of the try body:
\* calls 1 and 2 are those of the module and of the try statement, and each
\* body statement makes two
TimeFailedInTryBody ==
    /\ TryEvaluated /\ TimeFailed
    /\ interp.deadline \in 3..(2 + 2 * TryBodyRun)

\* C3: a resource failure that occurs while a statement of a try body runs is
\* not absorbed by the try statement: the evaluation does not end with a
\* normal result.
C3_ResourceFailureSurfaces ==
    TimeFailedInTryBody => outcome.kind # "returned"

\* C5: debug mode disables the wall-clock check and nothing else: with
\* debugging on, an evaluation goes as it does with debugging off on a clock
\* that never runs out, so no run() call fails for elapsed time, the step
\* counter counts the same calls, and a loop that never ends stops with the
\* step-budget failure.
C5_DebugDisablesOnlyClock ==
    (family = "budget" /\ nevals >= 1 /\ interp.debugging) =>
        LET ref == eval([last.pre EXCEPT !.debugging = FALSE], last.script, TRUE, 0)
        IN  /\ interp.cycles = ref.st.cycles
            /\ interp.symtable = ref.st.symtable
            /\ interp.error = ref.st.error
            /\ outcome = ref.out
            /\ outcome.kind # "returned" => interp.cycles = MAX_CYCLES + 1
            /\ last.script \in {BudgetScript[1], BudgetScript[2]} =>
                  /\ outcome.kind = "printed"
                  /\ interp.cycles = MAX_CYCLES + 1
                  /\ interp.error # <<>> /\ interp.error[1].exc = "RuntimeError"

\* `while True: pass` in debug mode on a clock that ran out at the third
\* run() call: it went on to the step ceiling and failed there
C5_Witness ==
    /\ family = "budget" /\ nevals >= 1 /\ interp.debugging
    /\ last.script = BudgetScript[1]
    /\ interp.deadline = 3 /\ interp.ticks = 3
    /\ outcome.kind = "printed" /\ interp.cycles = MAX_CYCLES + 1

\* the failure of a statement of an except block is pending: the try statement
\* emptied the error list before it ran the block, and `und2`, the first
\* statement of the block, is the only one that fails with a NameError
HandlerFailed == interp.error # <<>> /\ interp.error[1].exc = "NameError"

\* C6: while the error list is not empty, run() calls invoke no handler and
\* change no binding: after a statement of an except block has failed, the
\* statements after it in that block, the finally block and the statements
\* after the try statement bind nothing and trace nothing.
C6_ErrorsSticky ==
    (TryEvaluated /\ HandlerFailed) =>
        \A id \in {"h", "c", "d"} :
            AssignLines(id) = {} /\ id \notin DOMAIN interp.symtable

\* a try statement whose body failed and whose handler failed at its first
\* statement, with a finally block and a statement after it
C6_Witness ==
    /\ TryEvaluated /\ HandlerFailed /\ outcome.kind = "returned"
    /\ TryNode.handlers = TryHandlers[3]
    /\ TryNode.finalbody # <<>>
    /\ Len(last.script.body) = 2
    /\ "h" \notin DOMAIN interp.symtable /\ "d" \notin DOMAIN interp.symtable

\* the last eval() call of a "ret" session was the call f(a)
RetCalled == family = "ret" /\ nevals >= 2

\* the trace lines of the value of an executed `return r1`, `return r2` or
\* `return i`
ReturnLines == {k \in DOMAIN interp.trace :
                    interp.trace[k].ev = "name" /\ interp.trace[k].id \in {"r1", "r2", "i"}}

\* C7: in a procedure call, once a return has executed, no later statement of
\* the body executes (no later statement of its block, no later iteration of
\* its loop) and the call yields the value of that first return.
C7_NothingAfterReturn ==
    RetCalled =>
        \A k \in ReturnLines :
            (\A j \in ReturnLines : k <= j) =>
                /\ \A j \in DOMAIN interp.trace :
                       j > k => interp.trace[j].ev \notin {"assign", "name"}
                /\ outcome.kind = "returned" => outcome.val = interp.trace[k].val

\* the procedure f that the last eval() call called, and its argument
CalledBody == last.pre.symtable["f"].proc.body
CalledArg == last.script.body[1].value.args[1].n

\* C8: a return is consumed by the call of the procedure that executed it: in
\* f, after the statement `q()` (q returns 5), the next statement `return x`
\* runs and f yields x.
C8_ReturnConsumedAtBoundary ==
    (/\ ProcCalled /\ outcome.kind = "returned"
     /\ CalledBody = <<ProcStmt[8], ProcStmt[3]>>) =>
        outcome.val = IntVal(CalledArg)

\* the statements of ProcStmt that hold no return statement
NoReturnStmts == {ProcStmt[i] : i \in {1, 2, 5, 8, 9, 10}}

\* C9: a procedure whose body executes no return yields None; one that
\* executes `return None` yields None and stops there; one that executes
\* `return x` yields x.
C9_ReturnValue ==
    (ProcCalled /\ outcome.kind = "returned") =>
        /\ (\A i \in 1..Len(CalledBody) : CalledBody[i] \in NoReturnStmts) =>
              outcome.val = None
        /\ CalledBody[1] = ProcStmt[4] =>
              outcome.val = None /\ AssignLines("y") = {} /\ AssignLines("g") = {}
        /\ CalledBody[1] = ProcStmt[3] => outcome.val = IntVal(CalledArg)

\* the loop statement of the last eval() call and the statements of its body
\* that come from LoopStmt
LoopNode == last.script.body[Len(last.script.body)]
LoopStmts == IF LoopNode.t = "for" THEN LoopNode.body ELSE Tail(LoopNode.body)

\* C10: when break or continue executes in an if-block of a loop body, the
\* later statements of the if-block do not run in that iteration, break ends
\* the loop, and no signal is pending after the loop.
C10_InterruptStopsIteration ==
    (family = "loop" /\ nevals >= 1) =>
        /\ AssignLines("n") = {}
        /\ interp.interrupt = "none"
        /\ (LoopStmts # <<>> /\ LoopStmts[1] = LoopStmt[4]) =>
              interp.symtable["i"] = IntVal(1)

\* the script's loop condition never becomes false
NeverEnding == last.script \in {BudgetScript[1], BudgetScript[2]}

\* C4: every evaluation terminates, and one of a script whose loop condition
\* never becomes false stops with a resource failure: a check of run() has
\* failed, eval() does not return normally, and what the error list holds
\* starts with the RuntimeError of that check.
C4_Terminates ==
    (ctl.pc = "run_module") ~>
        (/\ ctl.pc = "done"
         /\ NeverEnding =>
               /\ outcome.kind = "printed"
               /\ ResourceFailed
               /\ interp.error # <<>> => interp.error[1].exc = "RuntimeError")

\* `while True: pass` on a clock that never runs out has stopped at the step
\* ceiling
C4_Witness ==
    /\ ctl.pc = "done" /\ last.script = BudgetScript[1]
    /\ interp.deadline = 0
    /\ interp.cycles = MAX_CYCLES + 1
    /\ outcome.kind = "printed"

\* the signal a statement of LoopStmt raises in the iteration with value i
\* (i >= 1): break, continue, or none.  LoopStmt[6], a break followed by a
\* continue in one if-block, is left out: see C10.
StmtSignal(stmt, i) ==
    CASE stmt \in {LoopStmt[2], LoopStmt[4]} -> "break"
      [] stmt \in {LoopStmt[3], LoopStmt[5]} -> "continue"
      [] stmt = LoopStmt[7] -> IF i > 1 THEN "break" ELSE "none"
      [] OTHER -> "none"

\* the signal that ends the iteration with value i: that of the first
\* statement of the body that raises one
BodySignal(i) ==
    LET raising == {k \in 1..Len(LoopStmts) : StmtSignal(LoopStmts[k], i) # "none"}
    IN  IF raising = {} THEN "none"
        ELSE StmtSignal(LoopStmts[CHOOSE k \in raising : \A j \in raising : k <= j], i)

\* the loop of the last eval() call has an else clause, its body is made of
\* statements whose signal is settled, and the evaluation ran to its end
LoopWithElse ==
    /\ family = "loop" /\ nevals >= 1 /\ outcome.kind = "returned"
    /\ LoopNode.orelse # <<>>
    /\ \A k \in 1..Len(LoopStmts) : LoopStmts[k] # LoopStmt[6]

TryBodyFailed ==
    /\ TryEvaluated /\ ~ResourceFailed
    /\ \E i \in 1..Len(TryNode.body) : TryNode.body[i] = TryStmt[2]
    /\ TryNode.handlers # TryHandlers[3]

\* the name the k-th except block of the try statement assigns to
HandlerTarget(k) == TryNode.handlers[k].body[1].targets[1].id

UnpackEvaluated == family = "unpack" /\ nevals >= 1
UnpackInTry == last.script.body[1].t = "try"
UnpackBody ==
    IF UnpackInTry THEN last.script.body[1].body
    ELSE SubSeq(last.script.body, 1, Len(last.script.body) - 1)

\* the statements of UnpackStmt that fail: the two assignments whose lengths
\* differ, the native operation on None, the unbound name
FailingStmts == {UnpackStmt[i] : i \in 2..5}

\* C13: the else block of a try statement runs exactly when every statement
\* of the body completed without failure; when a body statement fails, be it
\* by an unbound name, a failing native operation or an unpacking-arity
\* mismatch, the handlers run and the else block does not.
C13_ElseIffNoFailure ==
    (UnpackEvaluated /\ UnpackInTry) =>
        IF \E i \in 1..Len(UnpackBody) : UnpackBody[i] \in FailingStmts
        THEN /\ AssignLines("e") = {} /\ "e" \notin DOMAIN interp.symtable
             /\ Cardinality(AssignLines("h")) = 1
        ELSE /\ Cardinality(AssignLines("e")) = 1
             /\ AssignLines("h") = {}

\* the assignments `a, b = ...` whose value has not two elements
Mismatched == {UnpackStmt[2], UnpackStmt[3]}

\* C20: a tuple target of n elements binds its i-th element to the i-th
\* value when the value has n elements; when it has more or fewer, the
\* assignment fails with a ValueError and binds none of the targets: the
\* names keep the bindings they had, or stay unbound.
C20_TupleUnpack ==
    UnpackEvaluated =>
        /\ UnpackBody[1] = UnpackStmt[1] =>
              /\ interp.symtable["a"] = IntVal(1) /\ interp.symtable["b"] = IntVal(2)
              /\ \A i \in AssignLines("a"), j \in AssignLines("b") :
                    interp.trace[i].val = IntVal(1) /\ interp.trace[j].val = IntVal(2)
        /\ (\A i \in 1..Len(UnpackBody) : UnpackBody[i] \in Mismatched) =>
              /\ "a" \notin DOMAIN interp.symtable /\ "b" \notin DOMAIN interp.symtable
              /\ AssignLines("a") = {} /\ AssignLines("b") = {}
        /\ (~UnpackInTry /\ UnpackBody[1] \in Mismatched) =>
              /\ interp.error # <<>> /\ interp.error[1].exc = "ValueError"
              /\ outcome.kind = "printed"
              /\ "d" \notin DOMAIN interp.symtable
        /\ (Len(UnpackBody) = 2 /\ UnpackBody[1] = UnpackStmt[1]
                /\ UnpackBody[2] \in Mismatched) =>
              /\ Cardinality(AssignLines("a")) = 1 /\ Cardinality(AssignLines("b")) = 1
              /\ ~UnpackInTry =>
                    interp.error # <<>> /\ interp.error[1].exc = "ValueError"

\* a, b = 1, 2 and then a, b = 1, 2, 3: the second assignment failed and
\* the names kept the values of the first
C20_Witness ==
    /\ UnpackEvaluated /\ ~UnpackInTry
    /\ UnpackBody = <<UnpackStmt[1], UnpackStmt[2]>>
    /\ interp.symtable["a"] = IntVal(1) /\ interp.symtable["b"] = IntVal(2)
    /\ interp.error # <<>> /\ interp.error[1].exc = "ValueError"

\* the last evaluation ran a try statement with a finally block, and no
\* resource check failed
TryWithFinally == TryEvaluated /\ ~ResourceFailed /\ TryNode.finalbody # <<>>

\* the statement `c = 3` of the finally block executed, once
FinallyExecuted ==
    Cardinality(AssignLines("c")) = 1 /\ "c" \in DOMAIN interp.symtable

\* the routes on which the finally block does execute: the body succeeded,
\* or it failed and no statement of the except blocks failed
FinallyOnHandledRoutes ==
    (TryWithFinally /\ ~HandlerFailed) => FinallyExecuted

\* C14: the statements of the finally block execute on every exit route of
\* the try statement: the body succeeded, the body failed and the handlers
\* ran, a handler body failed.
C14_FinallyOnEveryRoute == TryWithFinally => FinallyExecuted

\* the last eval() call of an "args" session was a call of f, v, k or p
ArgsCalled == family = "args" /\ nevals >= 2
CallNode == last.script.body[1].value

\* the procedure called, its required parameters and its optional ones
CalledProc == last.pre.symtable[CallNode.func.id].proc
Required == CalledProc.argnames
OptNames == {CalledProc.kwargs[i].key : i \in 1..Len(CalledProc.kwargs)}

\* the arguments of the call: the number of positional ones, the names of
\* the keyword ones
NPos == Len(CallNode.args)
KwSet == {CallNode.keywords[i].arg : i \in 1..Len(CallNode.keywords)}

\* the required parameters given a positional argument, those given twice,
\* and the number of those given a value
ByPosition == {Required[i] : i \in {j \in 1..Len(Required) : j <= NPos}}
Duplicates == ByPosition \cap KwSet
Supplied == Cardinality(ByPosition \cup (KwSet \cap {Required[i] : i \in 1..Len(Required)}))

\* the keyword arguments that name no parameter
Unknown == KwSet \ ({Required[i] : i \in 1..Len(Required)} \cup OptNames)

\* the body of the procedure executed its first statement, `m = x`
BodyExecuted == AssignLines("m") # {}

\* the call failed with a TypeError whose msg has the given text
CallFailed(text) ==
    /\ interp.error # <<>>
    /\ interp.error[1].exc = "TypeError"
    /\ interp.error[1].msg.text = text
    /\ outcome.kind = "printed"

\* C15: a call with more positional arguments than the procedure has required
\* parameters, of a procedure that declares no *vararg, is an arity failure:
\* the body is not executed.
C15_TooManyPositional ==
    (ArgsCalled /\ CalledProc.vararg = "" /\ NPos > Len(Required)) =>
        /\ ~BodyExecuted
        /\ interp.error # <<>> /\ interp.error[1].exc = "TypeError"

\* C16: a call that gives values to fewer required parameters than the
\* procedure declares, keyword arguments that name required parameters
\* counted, fails with a TypeError whose msg names the declared count and the
\* given count; the body is not executed and the namespace is unchanged.
C16_TooFewArguments ==
    (ArgsCalled /\ Duplicates = {} /\ Supplied < Len(Required)) =>
        /\ CallFailed("not enough arguments")
        /\ interp.error[1].msg.expected = Len(Required)
        /\ interp.error[1].msg.got = Supplied
        /\ ~BodyExecuted
        /\ interp.symtable = last.pre.symtable

\* f(11, z=23): y has no value, the msg says expected 3, got 2
C16_Witness ==
    /\ ArgsCalled /\ CallNode.func.id = "f" /\ NPos = 1 /\ KwSet = {"z"}
    /\ CallFailed("not enough arguments")
    /\ interp.error[1].msg.expected = 3 /\ interp.error[1].msg.got = 2
    /\ ~BodyExecuted

\* C17: a call that gives a required parameter a positional argument and a
\* keyword argument fails with the TypeError for multiple values, which names
\* such a parameter; the body is not executed and the namespace is unchanged.
C17_DuplicateArgument ==
    (ArgsCalled /\ Duplicates # {}) =>
        /\ CallFailed("multiple values for keyword argument")
        /\ interp.error[1].msg.names \subseteq Duplicates
        /\ interp.error[1].msg.names # {}
        /\ ~BodyExecuted
        /\ interp.symtable = last.pre.symtable

\* f(11, 12, 13, y=22): y is given twice, all the parameters have a value
C17_Witness ==
    /\ ArgsCalled /\ CallNode.func.id = "f" /\ NPos = 3 /\ KwSet = {"y"}
    /\ CallFailed("multiple values for keyword argument")
    /\ interp.error[1].msg.names = {"y"}
    /\ ~BodyExecuted

\* a call that gives every required parameter one value and no positional
\* argument beyond them, with keyword arguments that name no parameter
CallWithUnknown ==
    /\ ArgsCalled /\ Duplicates = {} /\ Supplied = Len(Required)
    /\ NPos <= Len(Required)
    /\ Unknown # {}

\* the mapping of the unknown keyword arguments of the call to their values
UnknownMapping ==
    [k |-> "dict", n |-> 0, seq |-> <<>>, d |-> [x \in Unknown |-> IntVal(KwValue(x))]]

\* C18: keyword arguments that name neither a required nor an optional
\* parameter are bound, as a mapping, to the **kwarg parameter when the
\* procedure declares one; when it declares none the call fails with the
\* TypeError for extra keyword arguments and the body is not executed.
C18_UnknownKeywords ==
    CallWithUnknown =>
        IF CalledProc.varkws # ""
        THEN /\ interp.error = <<>> /\ BodyExecuted
             /\ Cardinality(AssignLines("q")) = 1
             /\ \A i \in AssignLines("q") : interp.trace[i].val = UnknownMapping
        ELSE /\ CallFailed("extra keyword arguments")
             /\ interp.error[1].msg.names = Unknown
             /\ ~BodyExecuted

\* k(11, w=25, o=24): kw is bound to the mapping {w: 25}, o to 24
C18_Witness ==
    /\ CallWithUnknown /\ CallNode.func.id = "k" /\ KwSet = {"w", "o"}
    /\ \A i \in AssignLines("q") : interp.trace[i].val = UnknownMapping
    /\ \A i \in AssignLines("n") : interp.trace[i].val = IntVal(24)
    /\ BodyExecuted

\* a call that gives the first NPos required parameters a positional argument
\* and each of the others a keyword argument, in any order
MixedCall ==
    /\ ArgsCalled /\ NPos <= Len(Required)
    /\ KwSet \cap {Required[i] : i \in 1..Len(Required)}
          = {Required[i] : i \in (NPos + 1)..Len(Required)}
    /\ Unknown # {} => CalledProc.varkws # ""

\* the lines of the trace for a read of the name id in the body
NameLines(id) == {i \in DOMAIN interp.trace :
                      interp.trace[i].ev = "name" /\ interp.trace[i].id = id}

\* C19: call styles mix: a call that gives a prefix of the required
\* parameters positionally and the others by keyword, in any order, binds each
\* parameter to the value given for it, as the all-positional call binds the
\* i-th parameter to the i-th value.
C19_MixedCallStyles ==
    MixedCall =>
        /\ interp.error = <<>> /\ BodyExecuted
        /\ \A j \in 1..Len(Required) :
              /\ NameLines(Required[j]) # {}
              /\ \A i \in NameLines(Required[j]) :
                    interp.trace[i].val =
                        IF j <= NPos THEN IntVal(10 + j)
                        ELSE IntVal(KwValue(Required[j]))

\* f(11, z=23, y=22): the keywords come in the other order than the
\* parameters, and y is bound to 22, z to 23
C19_Witness ==
    /\ MixedCall /\ CallNode.func.id = "f" /\ NPos = 1
    /\ Len(CallNode.keywords) = 2 /\ CallNode.keywords[1].arg = "z"
    /\ \A i \in AssignLines("n") : interp.trace[i].val = IntVal(22)
    /\ \A i \in AssignLines("q") : interp.trace[i].val = IntVal(23)
    /\ BodyExecuted

(***************************************************************************)
(* What eval() gives its caller: the "surface" sessions.                   *)
(***************************************************************************)
\* the last eval() call of a "surface" session
SurfaceEvaluated == family = "surface" /\ nevals >= 1

\* the last script is one statement, at the top level, that dispatches a node
\* without a handler: `f = <node>` or `<node>`
TopLevelUnsupported ==
    /\ SurfaceEvaluated /\ last.script.t = "module" /\ Len(last.script.body) = 1
    /\ last.script.body[1].t \in {"assign", "expr"}
    /\ last.script.body[1].value.t \notin supported_nodes

\* the last script is a try statement whose body dispatches a node without a
\* handler
TriedUnsupported ==
    /\ SurfaceEvaluated /\ last.script.t = "module" /\ Len(last.script.body) = 1
    /\ last.script.body[1].t = "try"
    /\ last.script.body[1].body[1].t = "assign"
    /\ last.script.body[1].body[1].value.t \notin supported_nodes

\* C23: the dispatch of a node without a handler is a NotImplementedError:
\* every record of the error list has that class, eval() raises that class
\* when show_errors is False and prints when it is True, and the statement
\* has no effect: the namespace is the one before the call and no assignment
\* is traced.  The failure is an exception like any other: in the body of a
\* try statement it runs the handler.
C23_UnsupportedNode ==
    /\ TopLevelUnsupported =>
          /\ interp.error # <<>>
          /\ \A i \in 1..Len(interp.error) : interp.error[i].exc = "NotImplementedError"
          /\ outcome = IF last.show_errors
                       THEN [kind |-> "printed", val |-> None, exc |-> "none"]
                       ELSE [kind |-> "raised", val |-> None, exc |-> "NotImplementedError"]
          /\ interp.symtable = last.pre.symtable
          /\ interp.trace = <<>>
    /\ TriedUnsupported =>
          /\ "f" \in DOMAIN interp.symtable <=> "f" \in DOMAIN last.pre.symtable
          /\ interp.symtable["h"] = IntVal(1)
          /\ outcome.kind = "returned"

\* `f = lambda x: x*x` was evaluated with show_errors=False and eval() raised
\* NotImplementedError
C23_Witness ==
    /\ TopLevelUnsupported /\ ~last.show_errors
    /\ last.script.body[1].t = "assign"
    /\ outcome.kind = "raised" /\ outcome.exc = "NotImplementedError"
    /\ "f" \notin DOMAIN interp.symtable

\* the last call was interp(script), the call interface with its default
\* arguments, of a script `n = 6` and then an assert statement
AssertCalled ==
    /\ SurfaceEvaluated /\ last.show_errors = DefaultShowErrors
    /\ last.script.t = "module" /\ Len(last.script.body) = 2
    /\ last.script.body[2].t = "assert"

\* the test of that assert statement, `n == c`, is true of the n bound
AssertTestHolds == interp.symtable["n"].n = last.script.body[2].test.comparators[1].n

\* C24: through the call interface with its default arguments, an assert
\* whose test is true returns with no error recorded, and an assert whose
\* test is false raises AssertionError to the caller.
C24_AssertThroughCall ==
    AssertCalled =>
        IF AssertTestHolds
        THEN outcome.kind = "returned" /\ interp.error = <<>>
        ELSE outcome.kind = "raised" /\ outcome.exc = "AssertionError"

\* the statements of the last script, and the last of them
LastBody == IF last.script.t = "text" THEN last.script.lines ELSE last.script.body
LastStmt == LastBody[Len(LastBody)]

\* what a value holds: the items of a list, the value itself otherwise
Contents(v, st) == IF v.k = "list" THEN st.heap[v.n].items ELSE v

\* the value of an expression in the namespace that the evaluation left
ValueNow(e) ==
    Contents(Run(e, TRUE, EvalReset(interp, 0)).val, Run(e, TRUE, EvalReset(interp, 0)).st)

\* the value of the last statement: the value of its expression for an
\* expression statement, True for an assert statement (on_assert returns
\* True), None for every other statement
LastValue ==
    IF LastStmt.t = "expr" THEN ValueNow(LastStmt.value)
    ELSE IF LastStmt.t = "assert" THEN BoolVal(TRUE)
    ELSE None

RunStateAtStart == EvalReset(last.pre, 0)

\* C26: when an evaluation begins, the error list, the pending control
\* signal, the captured last error, the return-value slot, the step counter
\* and the clock reading since the start have the values of a new instance.
C26_RunStateReset ==
    SurfaceEvaluated =>
        /\ RunStateAtStart.error = NewInterpreter.error
        /\ RunStateAtStart.interrupt = NewInterpreter.interrupt
        /\ RunStateAtStart.last_error = NewInterpreter.last_error
        /\ RunStateAtStart.retval = NewInterpreter.retval
        /\ RunStateAtStart.cycles = NewInterpreter.cycles
        /\ RunStateAtStart.ticks = NewInterpreter.ticks

\* the names that the one statement of the last script binds: the target of
\* an assignment, of a for loop, of the generator of a list comprehension
BoundNames ==
    IF ~SurfaceEvaluated \/ last.script.t # "module" \/ Len(last.script.body) # 1 THEN {}
    ELSE IF LastStmt.t = "assign" /\ LastStmt.targets[1].t = "name"
    THEN {LastStmt.targets[1].id}
    ELSE IF LastStmt.t = "for" THEN {LastStmt.target.id}
    ELSE IF LastStmt.t = "expr" /\ LastStmt.value.t = "listcomp"
    THEN {LastStmt.value.generators[1].target.id}
    ELSE {}

\* the statement binds a name that is no valid symbol name, and its value or
\* its iterable is one that evaluates
BindsInvalidName ==
    /\ \E id \in BoundNames : ~valid_symbol_name(id)
    /\ LastStmt.t = "assign" => LastStmt.value.t \in supported_nodes

UnparsableText ==
    /\ SurfaceEvaluated /\ last.script.t = "text"
    /\ \E i \in 1..Len(last.script.lines) : last.script.lines[i] = Garbage

GuardedEvaluated ==
    /\ SurfaceEvaluated /\ last.script.t = "module" /\ Len(last.script.body) = 1
    /\ LastStmt.t = "expr" /\ LastStmt.value.t = "binop"
    /\ LastStmt.value.op \in {"Pow", "LShift"}
GuardedOp == LastStmt.value.op
LeftOperand == LastStmt.value.left.n
RightOperand == LastStmt.value.right.n

\* the operands are within the ceiling: an exponent of at most 10000, a shift
\* of at most 1000
WithinCeiling ==
    IF GuardedOp = "Pow" THEN RightOperand <= 10000 ELSE RightOperand <= 1000

AttrEvaluated == family = "attr" /\ nevals >= 1
AttrStmt == last.script.body[1]

\* the last script was `target op= value`
AugEvaluated == AttrEvaluated /\ AttrStmt.t = "augassign"

\* `target = target op value` as Python parses it: the target of the
\* assignment in the Store context, the operand in the Load context
Desugared ==
    Module(<<AssignTo(AttrStmt.target,
                      BinOp([AttrStmt.target EXCEPT !.ctx = "Load"], AttrStmt.op,
                            AttrStmt.value))>>)

\* the instance after that statement, evaluated where the last call began
AfterDesugared == eval(last.pre, Desugared, last.show_errors, 0).st

\* C21: `target op= value` leaves the namespace and the objects as
\* `target = target op value` leaves them, for a name, a subscript and an
\* attribute as target.
C21_AugAssignDesugars ==
    AugEvaluated =>
        /\ interp.symtable = AfterDesugared.symtable
        /\ interp.heap = AfterDesugared.heap

\* the same, for the targets that are names or subscripts
AugAssignDesugars_NoAttribute ==
    (AugEvaluated /\ AttrStmt.target.t # "attribute") =>
        /\ interp.symtable = AfterDesugared.symtable
        /\ interp.heap = AfterDesugared.heap
        /\ interp.error = AfterDesugared.error

\* the last script read an attribute, `v.attr` or `y = v.attr`, of a name
\* that is bound; the object, and the name of the attribute
AttrRead ==
    /\ AttrEvaluated
    /\ AttrStmt.t \in {"expr", "assign"}
    /\ AttrStmt.value.t = "attribute"
    /\ AttrStmt.value.value.id \in DOMAIN last.pre.symtable
ReadObject == last.pre.symtable[AttrStmt.value.value.id]
ReadAttr == AttrStmt.value.attr

\* the evaluation failed with an AttributeError and gave no value: every
\* record has that class, eval() returned nothing, and nothing was bound
AttributeFailed ==
    /\ interp.error # <<>>
    /\ \A i \in 1..Len(interp.error) : interp.error[i].exc = "AttributeError"
    /\ outcome = [kind |-> "printed", val |-> None, exc |-> "none"]
    /\ interp.symtable = last.pre.symtable
    /\ interp.heap = last.pre.heap

\* C22: reading an attribute whose name is on the deny-list fails with an
\* AttributeError for an instance, a list and an integer, whether the object
\* has the attribute or not, and its value is neither returned nor bound;
\* reading an attribute that is not on the list and that the object does not
\* have fails in the same way.
C22_DeniedAttribute ==
    AttrRead =>
        /\ ReadAttr \in UNSAFE_ATTRS => AttributeFailed
        /\ (ReadAttr \notin UNSAFE_ATTRS /\ ~HasAttr(last.pre, ReadObject, ReadAttr)) =>
              AttributeFailed

\* `y = o.__dict__` was evaluated for the instance o, which has a __dict__:
\* an AttributeError, and y is not bound
C22_Witness ==
    /\ AttrRead /\ AttrStmt.t = "assign"
    /\ ReadAttr \in UNSAFE_ATTRS /\ ReadObject.k = "object"
    /\ HasAttr(last.pre, ReadObject, ReadAttr)
    /\ AttributeFailed
    /\ "y" \notin DOMAIN interp.symtable

(***************************************************************************)
(* Several instances in one host.                                          *)
(***************************************************************************)
\* the instance whose constructor call made the namespace of instance i
NamespaceFrom(i) == IF BuiltOver[i] = 0 THEN i ELSE BuiltOver[i]

\* instances i and j were constructed without a shared symbol table
ConstructedApart(i, j) == i # j /\ NamespaceFrom(i) # NamespaceFrom(j)

\* the namespace and the run state of instance i
RunStateOf(i) ==
    [namespace |-> dicts[instances[i].symtable],
     error |-> instances[i].error,
     interrupt |-> instances[i].interrupt,
     retval |-> instances[i].retval,
     cycles |-> instances[i].cycles]

\* the step is an eval() call on instance i
EvaluatedOn(i) == nevals' = nevals + 1 /\ last'.instance = i

\* C27: an eval() call on one instance leaves the namespace, the error list,
\* the control signal, the return slot and the step counter of every instance
\* that was constructed without a shared symbol table as they were, in every
\* order of the calls on the instances
C27_InstancesIndependent ==
    [][\A i \in DOMAIN instances, j \in DOMAIN instances :
          EvaluatedOn(i) /\ ConstructedApart(i, j) => RunStateOf(j)' = RunStateOf(j)]_vars

\* both of two instances constructed apart have evaluated, the later call
\* failed on a name that the earlier call, on the other instance, had bound
C27_Witness ==
    /\ family = "pair"
    /\ last.instance = 2
    /\ ConstructedApart(1, 2)
    /\ last.script = Module(<<Assign("y", Name("x"))>>)
    /\ instances[1].cycles > 0
    /\ instances[1].error = <<>>
    /\ "x" \in DOMAIN RunStateOf(1).namespace
    /\ instances[2].error # <<>>
    /\ instances[2].interrupt = "break"
    /\ "x" \notin DOMAIN RunStateOf(2).namespace

\* instances over one dict see each other's bindings: an eval() call on
\* one of them changes the namespace of the other only in this way
SharedNamespace ==
    \A i \in DOMAIN instances, j \in DOMAIN instances :
        NamespaceFrom(i) = NamespaceFrom(j) => RunStateOf(i).namespace = RunStateOf(j).namespace

(***************************************************************************)
(* Frame: the modified flag of a symbol.                                   *)
(***************************************************************************)
\* the last call was op(name, ...), and it returned
FrameCalled(op) == family = "frame" /\ frame.op = op /\ frame.exc = "none"

\* the name of the last call was a symbol of the frame before the call
WasSymbol == frame.name \in DOMAIN frame.pre

\* after reset_modified(name), is_modified(name) is false
ResetReportsUnmodified ==
    FrameCalled("reset_modified") => ~is_modified(frame.symbols, frame.name)

\* after set_modified(name), is_modified(name) is true
SetReportsModified ==
    FrameCalled("set_modified") => is_modified(frame.symbols, frame.name)

\* set_symbol returns modified exactly when the name is new or the value
\* differs from the stored one, and is_modified(name) then says the same
SetSymbolReports ==
    FrameCalled("set_symbol") =>
        /\ frame.ret = (~WasSymbol \/ frame.val # frame.pre[frame.name].value)
        /\ is_modified(frame.symbols, frame.name) = frame.ret

\* C36: after reset_modified(name) the symbol is reported unmodified, after
\* set_modified(name) it is reported modified, for a name that was a symbol
\* of the frame and for one that was not, and set_symbol reports modified
\* exactly when the name is new or the new value differs from the stored one
C36_ModifiedFlag ==
    /\ ResetReportsUnmodified
    /\ SetReportsModified
    /\ SetSymbolReports

\* what holds of the flag: the claim, with reset_modified limited to the
\* names that were symbols of the frame
ModifiedFlag_KnownName ==
    /\ (WasSymbol => ResetReportsUnmodified)
    /\ SetReportsModified
    /\ SetSymbolReports

\* reset_modified of a name that was no symbol leaves it reported modified
ResetOfNewName ==
    /\ FrameCalled("reset_modified")
    /\ ~WasSymbol
    /\ is_modified(frame.symbols, frame.name)

(***************************************************************************)
(* A try statement in a loop body.                                         *)
(***************************************************************************)
\* the last eval() call ran a loop with a try statement in its body
CaughtEvaluated == family = "caught" /\ nevals >= 1

\* the loop of the last script, and the try statement of its body
CaughtLoop == last.script.body[Len(last.script.body)]
CaughtTry == IF CaughtLoop.t = "for" THEN CaughtLoop.body[1] ELSE CaughtLoop.body[2]

\* a statement of the try body fails, in every iteration, with a NameError
TryBodyFails == \E k \in DOMAIN CaughtTry.body : CaughtTry.body[k] = Expr(Name("und"))

\* the loop went through its two iterations: the statement after the try
\* statement ran in each, the last one with i = 2, and the else clause, if
\* there is one, ran after them
LoopCompleted ==
    /\ Cardinality(AssignLines("m")) = 2
    /\ "m" \in DOMAIN interp.symtable /\ interp.symtable["m"] = IntVal(2)
    /\ CaughtLoop.orelse # <<>> => AssignLines("z") # {}

\* C32: when a try/except statement in a for or while loop body catches a
\* failure, no break signal is pending after it: the rest of the iteration
\* runs, the loop goes on to its later iterations, and its else clause runs
\* when the loop is exhausted
C32_CaughtFailureInLoop ==
    (CaughtEvaluated /\ TryBodyFails) =>
        /\ interp.error = <<>>
        /\ interp.interrupt = "none"
        /\ LoopCompleted

\* a loop whose try statement catches nothing goes through its iterations
LoopWithoutFailure == (CaughtEvaluated /\ ~TryBodyFails) => LoopCompleted

\* the failure was caught, and the loop ended in its first iteration: the
\* statement after the try statement and the else clause never ran
LoopEndedByCaughtFailure ==
    /\ CaughtEvaluated
    /\ TryBodyFails
    /\ CaughtLoop.orelse # <<>>
    /\ interp.error = <<>>
    /\ outcome.kind = "returned"
    /\ interp.symtable["i"] = IntVal(1)
    /\ AssignLines("m") = {}
    /\ AssignLines("z") = {}

(***************************************************************************)
(* The dict object that is the namespace.                                  *)
(***************************************************************************)
\* the items of dict object id, as a host that holds a reference to it
\* sees them
ItemsOf(st, id) == IF id = st.symid THEN st.symtable ELSE st.nsdicts[id]

\* the dict that was the namespace of the instance before the last eval()
\* call: the host holds a reference to it
HostDict == last.pre.symid

\* the parameter x and the locals y and i of the callee are in the items d
\* as they were before the call: bound to their earlier values, or unbound
CalleeNamesAsBefore(d) ==
    \A id \in {"x", "y", "i"} :
        IF id \in DOMAIN last.pre.symtable
        THEN id \in DOMAIN d /\ d[id] = last.pre.symtable[id]
        ELSE id \notin DOMAIN d

\* C34: the dict object that is the namespace before a procedure call is
\* the namespace after the call, and it holds no parameter or local of the
\* callee: a host that holds a reference to it sees the bindings that the
\* interpreter sees
C34_NamespaceObjectKept ==
    ProcCalled =>
        /\ interp.symid = HostDict
        /\ CalleeNamesAsBefore(ItemsOf(interp, HostDict))
        /\ ItemsOf(interp, HostDict) = interp.symtable

\* the interpreter itself sees no parameter or local of the callee after a
\* call that ended without a failure
RestoredForInterpreter ==
    (ProcCalled /\ interp.error = <<>>) => CalleeNamesAsBefore(interp.symtable)

\* after the call f(3), the instance refers to the copy made at the start of
\* the call, and the dict of the host is left with the argument as x
HostDictLeftBehind ==
    /\ ProcCalled
    /\ interp.error = <<>>
    /\ interp.symid # HostDict
    /\ ItemsOf(interp, HostDict)["x"] = IntVal(3)
    /\ interp.symtable["x"] = IntVal(2)

(***************************************************************************)
(* Writing and deleting attributes.                                        *)
(***************************************************************************)
\* the last script was `v.attr = 1` or `del v.attr`, v a name that is bound
AttrWritten ==
    /\ AttrEvaluated
    /\ AttrStmt.t = "assign"
    /\ AttrStmt.targets[1].t = "attribute"
    /\ AttrStmt.value = Num(1)
    /\ AttrStmt.targets[1].value.id \in DOMAIN last.pre.symtable
AttrDeleted ==
    /\ AttrEvaluated
    /\ AttrStmt.t = "delete"
    /\ Len(AttrStmt.targets) = 1
    /\ AttrStmt.targets[1].t = "attribute"
    /\ AttrStmt.targets[1].value.t = "name"
    /\ AttrStmt.targets[1].value.id \in DOMAIN last.pre.symtable

\* C33: assigning to an attribute whose name is on the deny-list, and
\* deleting one, fails with an AttributeError and leaves the object and the
\* namespace as they were, for an instance, a list and an integer
C33_DeniedAttributeWrite ==
    /\ (AttrWritten /\ AttrStmt.targets[1].attr \in UNSAFE_ATTRS) => AttributeFailed
    /\ (AttrDeleted /\ AttrStmt.targets[1].attr \in UNSAFE_ATTRS) => AttributeFailed

\* what holds of `del v.attr`, on the deny-list or not: it fails, with a
\* KeyError, and the objects and the namespace are as they were
DeleteOfAttributeFails ==
    AttrDeleted =>
        /\ interp.error # <<>>
        /\ \A i \in 1..Len(interp.error) : interp.error[i].exc = "KeyError"
        /\ interp.symtable = last.pre.symtable
        /\ interp.heap = last.pre.heap

\* `o.__subclasses__ = 1` was evaluated for the instance o: no failure, and
\* o has the attribute
DeniedWriteTakesEffect ==
    /\ AttrWritten
    /\ AttrStmt.targets[1].attr = "__subclasses__"
    /\ interp.error = <<>>
    /\ outcome.kind = "returned"
    /\ "__subclasses__" \notin DOMAIN last.pre.heap[1].attrs
    /\ "__subclasses__" \in DOMAIN interp.heap[1].attrs

(***************************************************************************)
(* Assignment to a range slice.                                            *)
(***************************************************************************)
SliceEvaluated == family = "slice" /\ nevals >= 1
SliceWritten == SliceEvaluated /\ last.script.body[1].t = "assign"
SliceWasRead == SliceEvaluated /\ last.script.body[1].t = "expr"

\* the value that a bound or a step written in the script has
SlicePart(n) == IF n = NoneNode THEN None ELSE IntVal(n.n)

\* the slice lo:hi:step written in the script of the last eval() call
ScriptSlice(node) == SliceVal(SlicePart(node.lower), SlicePart(node.upper), SlicePart(node.step))
WrittenSlice == ScriptSlice(last.script.body[1].targets[1].slice)
ReadSlice == ScriptSlice(last.script.body[1].value.slice)

\* the values assigned by the script of the last eval() call
WrittenValues == [j \in DOMAIN last.script.body[1].value.elts |->
                    IntVal(last.script.body[1].value.elts[j].n)]

\* the items of the host's list a before and after the last eval() call
ItemsBefore == last.pre.heap[1].items
ItemsAfter == interp.heap[1].items

\* the positions of a that lo:hi:step selects
Selected(s) == SlicePositions(s, Len(ItemsBefore))

\* C35: `a[lo:hi:step] = v`, with as many values as lo:hi:step selects,
\* gives the selected positions of a the values and leaves the other
\* positions of a as they were
C35_SliceWriteHonoursStep ==
    SliceWritten /\ Len(WrittenValues) = Len(Selected(WrittenSlice))
        => /\ interp.error = <<>>
           /\ ItemsAfter = ReplaceAt(ItemsBefore, Selected(WrittenSlice), WrittenValues)

\* the same for a slice written without a step, or with the step 1
SliceWrite_StepOne ==
    SliceWritten /\ SliceStep(WrittenSlice) = 1
                 /\ Len(WrittenValues) = Len(Selected(WrittenSlice))
        => /\ interp.error = <<>>
           /\ ItemsAfter = ReplaceAt(ItemsBefore, Selected(WrittenSlice), WrittenValues)

\* what the assignment does: it replaces the range lo:hi, whatever the step
SliceWrite_ReplacesRange ==
    SliceWritten
        => /\ interp.error = <<>>
           /\ ItemsAfter = ReplaceRange(ItemsBefore,
                                        SliceStart(WrittenSlice, Len(ItemsBefore)),
                                        SliceStop(WrittenSlice, Len(ItemsBefore)),
                                        WrittenValues)

\* reading a[lo:hi:step] gives a new list of the selected items
SliceRead_HonoursStep ==
    SliceWasRead
        => /\ interp.error = <<>>
           /\ outcome.val.k = "list"
           /\ interp.heap[outcome.val.n].items = ItemsAt(ItemsBefore, Selected(ReadSlice))
           /\ ItemsAfter = ItemsBefore

\* `a[0:4:2] = (8, 9)` on [1, 2, 3, 4] has left [8, 9]
SliceStepDropped ==
    /\ SliceWritten
    /\ WrittenSlice = SliceVal(IntVal(0), IntVal(4), IntVal(2))
    /\ ItemsBefore = <<IntVal(1), IntVal(2), IntVal(3), IntVal(4)>>
    /\ WrittenValues = <<IntVal(8), IntVal(9)>>
    /\ ItemsAfter = <<IntVal(8), IntVal(9)>>

(***************************************************************************)
(* The trace.                                                              *)
(***************************************************************************)
TraceEvaluated == family = "trace" /\ nevals >= 1

RECURSIVE Traceable(_)
RECURSIVE TraceableIn(_, _)
\* the constructs in the nodes from the i-th on
TraceableIn(nodes, i) ==
    IF i > Len(nodes) THEN 0 ELSE Traceable(nodes[i]) + TraceableIn(nodes, i + 1)

\* the constructs in a tree that are to give the trace a line: expression
\* statements, operator applications, name lookups, assignments and calls
Traceable(node) ==
    CASE node.t = "module" -> TraceableIn(node.body, 1)
      [] node.t = "expr" -> 1 + Traceable(node.value)
      [] node.t = "unaryop" -> 1 + Traceable(node.operand)
      [] node.t = "binop" -> 1 + Traceable(node.left) + Traceable(node.right)
      [] node.t = "boolop" -> 1 + TraceableIn(node.values, 1)
      [] node.t = "compare" ->
            Len(node.ops) + Traceable(node.left) + TraceableIn(node.comparators, 1)
      [] node.t = "name" -> IF node.ctx = "Load" THEN 1 ELSE 0
      [] node.t = "assign" ->
            Len(node.targets) + TraceableIn(node.targets, 1) + Traceable(node.value)
      [] node.t = "subscript" -> Traceable(node.value) + Traceable(node.slice)
      [] node.t = "index" -> Traceable(node.value)
      [] node.t = "attribute" -> Traceable(node.value)
      [] node.t = "call" -> 1 + Traceable(node.func) + TraceableIn(node.args, 1)
      [] OTHER -> 0

RECURSIVE Traced(_, _)
RECURSIVE TracedIn(_, _, _)
TracedIn(nodes, i, names) ==
    IF i > Len(nodes) THEN 0 ELSE Traced(nodes[i], names) + TracedIn(nodes, i + 1, names)

\* the same count without the unary operators, without the assignments to
\* a subscript or an attribute, and without the lookups of the names whose
\* value prints as <...>
Traced(node, names) ==
    CASE node.t = "module" -> TracedIn(node.body, 1, names)
      [] node.t = "expr" -> 1 + Traced(node.value, names)
      [] node.t = "unaryop" -> Traced(node.operand, names)
      [] node.t = "binop" -> 1 + Traced(node.left, names) + Traced(node.right, names)
      [] node.t = "boolop" -> 1 + TracedIn(node.values, 1, names)
      [] node.t = "compare" ->
            Len(node.ops) + Traced(node.left, names) + TracedIn(node.comparators, 1, names)
      [] node.t = "name" -> IF node.ctx = "Load" /\ node.id \notin names THEN 1 ELSE 0
      [] node.t = "assign" ->
            Cardinality({j \in DOMAIN node.targets : node.targets[j].t = "name"})
            + TracedIn(node.targets, 1, names) + Traced(node.value, names)
      [] node.t = "subscript" -> Traced(node.value, names) + Traced(node.slice, names)
      [] node.t = "index" -> Traced(node.value, names)
      [] node.t = "attribute" -> Traced(node.value, names)
      [] node.t = "call" -> 1 + Traced(node.func, names) + TracedIn(node.args, 1, names)
      [] OTHER -> 0

\* the names whose value printed as <...> when the last eval() call began
AngleNames == {id \in DOMAIN last.pre.symtable : ReprStartsWithAngle(last.pre.symtable[id])}

\* C31: an evaluation with the tracer enabled leaves one line in the trace
\* for every expression statement, operator application, name lookup,
\* assignment and call it evaluated, and one with the tracer disabled leaves
\* no line
C31_OneLinePerConstruct ==
    TraceEvaluated /\ interp.error = <<>>
        => Len(interp.trace) = IF last.pre.trace_enabled THEN Traceable(last.script) ELSE 0

\* with the tracer disabled no line is appended
TraceOff_NoLine ==
    TraceEvaluated /\ ~last.pre.trace_enabled => interp.trace = <<>>

\* with the tracer enabled the lines are those of the constructs other than
\* unary operators, assignments to a subscript or an attribute, and lookups
\* of names whose value prints as <...>
TraceOn_Lines ==
    TraceEvaluated /\ interp.error = <<>> /\ last.pre.trace_enabled
        => Len(interp.trace) = Traced(last.script, AngleNames)

\* `-x` has been evaluated with the tracer enabled: the trace has the line
\* of the lookup of x and the line of the expression statement, and no more
UnaryNotTraced ==
    /\ TraceEvaluated
    /\ last.pre.trace_enabled
    /\ last.script = TraceScripts[4]
    /\ interp.error = <<>>
    /\ outcome.val = IntVal(-1)
    /\ [j \in DOMAIN interp.trace |-> interp.trace[j].ev] = <<"name", "expr">>

====
